---- MODULE Spec2Model ----
(***************************************************************************)
(* MAGTieredStaking (src/unnamed/part_001): tiered, time-locked staking    *)
(* ledger.  One transaction is a call to an external function.  A function *)
(* that calls the token is modelled in two parts: the entry action runs    *)
(* the modifiers, the requires and the statements up to the token call and *)
(* pushes a frame; the return action takes the token's answer and runs the *)
(* rest.  While a frame is open the token may call back into the contract  *)
(* (a nested call).  A revert restores the storage snapshot taken at the   *)
(* entry of the reverting call, as the EVM does.                           *)
(***************************************************************************)
EXTENDS Integers, Sequences, FiniteSets, TLC

(* ------------------------------ bounds --------------------------------- *)
MaxTicks == 2           \* number of time steps taken by the clock
MaxDepth == 2           \* call frames open at once (1 = no callback)
MaxCalls == 3           \* calls that got past their checks, failed ones apart
InitialBalance == 1000  \* staking tokens each user starts with
StuckBalance == 5       \* foreign tokens held by the contract at start
Donated == 12           \* staking tokens sent to the contract before the start

(* ----------------------------- constants ------------------------------- *)
PERCENTAGE_DENOMINATOR == 10000
DAY == 86400
YEAR == 365 * DAY
MAX_APY == 3000
NOT_ENTERED == "NOT_ENTERED"
ENTERED == "ENTERED"

Owner == "owner"
Accounts == {Owner, "alice"}
Hooked == {"alice"}
THIS == "staking"
Holders == Accounts \cup {THIS}
MAG == "MAG"
FOREIGN == "FOREIGN"

(* inputs the callers choose from *)
Stride == 15 * DAY
StakeInputs == {<<0, 30>>, <<InitialBalance, 30>>, <<InitialBalance, 15>>}
AddTierInputs ==
    {<<Owner, 0, 3000>>, <<Owner, 15, 0>>, <<Owner, 15, 3001>>,
     <<Owner, 15, 3000>>, <<Owner, 30, 3000>>, <<Owner, 30, 2000>>,
     <<"alice", 15, 3000>>}
UpdateTierInputs ==
    {<<Owner, 0, 3000>>, <<Owner, 0, 0>>, <<Owner, 0, 3001>>,
     <<Owner, 3, 3000>>, <<"alice", 0, 3000>>}
FundAmounts == {0, 600}
RecoverInputs ==
    {<<Owner, MAG, StuckBalance>>, <<Owner, MAG, 0>>,
     <<Owner, FOREIGN, StuckBalance>>, <<"alice", FOREIGN, StuckBalance>>}
TokenAnswers == {"ok", "false", "revert"}

VARIABLES
    stakes,             \* mapping(address => StakeInfo)
    totalStaked,
    rewardPoolBalance,
    stakingTiers,       \* StakingTier[]
    paused,             \* Pausable._paused
    status,             \* ReentrancyGuard._status
    balance,            \* staking token: balanceOf
    otherBalance,       \* a foreign token: balanceOf
    now,                \* block.timestamp
    stack,              \* open calls, outermost first
    calls,              \* calls that got past their checks so far
    paid,               \* rewards pushed to each account for its open stake
    funded,             \* sum of the amounts of the fundRewardPool calls made
    last                \* the call that ended in the latest step, if one did

vars == <<stakes, totalStaked, rewardPoolBalance, stakingTiers, paused,
          status, balance, otherBalance, now, stack, calls, paid, funded,
          last>>

(* ------------------------------ storage -------------------------------- *)
EmptyStake ==
    [amount |-> 0, stakingStartTime |-> 0, lockEndTime |-> 0, apy |-> 0,
     lastRewardClaimTime |-> 0, initialized |-> FALSE]

Storage ==
    [stakes |-> stakes, totalStaked |-> totalStaked,
     rewardPoolBalance |-> rewardPoolBalance, stakingTiers |-> stakingTiers,
     paused |-> paused, status |-> status, balance |-> balance,
     otherBalance |-> otherBalance, paid |-> paid, funded |-> funded]

Revert(s) ==
    /\ stakes' = s.stakes
    /\ totalStaked' = s.totalStaked
    /\ rewardPoolBalance' = s.rewardPoolBalance
    /\ stakingTiers' = s.stakingTiers
    /\ paused' = s.paused
    /\ status' = s.status
    /\ balance' = s.balance
    /\ otherBalance' = s.otherBalance
    /\ paid' = s.paid
    /\ funded' = s.funded

\* the event of emergencyWithdraw carrying the amount as the reward too
EmittedExitReward(op, caller, args, amount, apy, rewards, tiers) ==
    CASE op = "stake" ->
             <<[name |-> "Staked", user |-> caller, amount |-> amount,
                lockPeriod |-> args[2], apy |-> apy]>>
      [] op = "unstake" ->
             <<[name |-> "Unstaked", user |-> caller, amount |-> amount,
                rewards |-> rewards]>>
      [] op = "claimRewards" ->
             <<[name |-> "RewardsClaimed", user |-> caller,
                amount |-> rewards]>>
      [] op = "emergencyWithdraw" ->
             <<[name |-> "Unstaked", user |-> caller, amount |-> amount,
                rewards |-> amount]>>
      [] op = "addStakingTier" ->
             <<[name |-> "StakingTierAdded", lockPeriod |-> args[1],
                apy |-> args[2]]>>
      [] op = "updateStakingTier" ->
             <<[name |-> "StakingTierUpdated",
                lockPeriod |-> tiers[args[1] + 1].lockPeriod,
                apy |-> args[2]]>>
      [] op = "fundRewardPool" ->
             <<[name |-> "Funded", sender |-> caller, amount |-> amount]>>
      [] op = "pause" -> <<[name |-> "Paused", account |-> caller]>>
      [] op = "unpause" -> <<[name |-> "Unpaused", account |-> caller]>>
      [] op \in {"recoverERC20", "calculateRewards"} -> <<>>

\* the events a call of op emits when it runs to its end: the emit
\* statement of each function, with the caller, the arguments and the locals
\* it names; tiers is the registry at that point; pause and unpause emit
\* the events of Pausable; recoverERC20 and the view emit none
Emitted(op, caller, args, amount, apy, rewards, tiers) ==
    CASE op = "stake" ->
             <<[name |-> "Staked", user |-> caller, amount |-> amount,
                lockPeriod |-> args[2], apy |-> apy]>>
      [] op = "unstake" ->
             <<[name |-> "Unstaked", user |-> caller, amount |-> amount,
                rewards |-> rewards]>>
      [] op = "claimRewards" ->
             <<[name |-> "RewardsClaimed", user |-> caller,
                amount |-> rewards]>>
      [] op = "emergencyWithdraw" ->
             <<[name |-> "Unstaked", user |-> caller, amount |-> amount,
                rewards |-> 0]>>
      [] op = "addStakingTier" ->
             <<[name |-> "StakingTierAdded", lockPeriod |-> args[1],
                apy |-> args[2]]>>
      [] op = "updateStakingTier" ->
             <<[name |-> "StakingTierUpdated",
                lockPeriod |-> tiers[args[1] + 1].lockPeriod,
                apy |-> args[2]]>>
      [] op = "fundRewardPool" ->
             <<[name |-> "Funded", sender |-> caller, amount |-> amount]>>
      [] op = "pause" -> <<[name |-> "Paused", account |-> caller]>>
      [] op = "unpause" -> <<[name |-> "Unpaused", account |-> caller]>>
      [] op \in {"recoverERC20", "calculateRewards"} -> <<>>

\* op, caller, args: the call; result: "ok" or the reason of the revert;
\* depth: calls open around it; amount, rewards: its locals; attempts,
\* answers, moves: the token calls it made, what the token answered and the
\* transfers that took place; events: the events it leaves in the log, none
\* when it reverts; pre, post: the storage at entry and at exit
NoCall ==
    [op |-> "none", caller |-> "none", result |-> "none", depth |-> 0,
     args |-> <<>>, amount |-> 0, rewards |-> 0, attempts |-> 0,
     answers |-> <<>>, moves |-> <<>>, events |-> <<>>, pre |-> <<>>,
     post |-> <<>>]

(* the record of a call that ended without opening a frame *)
Ended(op, caller, args, result) ==
    [op |-> op, caller |-> caller, result |-> result, depth |-> Len(stack),
     args |-> args, amount |-> 0, rewards |-> 0, attempts |-> 0,
     answers |-> <<>>, moves |-> <<>>,
     events |-> IF result = "ok"
                THEN Emitted(op, caller, args, 0, 0, 0, stakingTiers')
                ELSE <<>>,
     pre |-> Storage, post |-> Storage']

\* an open call: its locals, its position and the snapshot a revert restores
Frame(op, caller, args, pc, amount, apy, rewards) ==
    [op |-> op, caller |-> caller, args |-> args, pc |-> pc,
     amount |-> amount, apy |-> apy, rewards |-> rewards, attempts |-> 1,
     answers |-> <<>>, moves |-> <<>>, snap |-> Storage]

Top == stack[Len(stack)]
Pop == SubSeq(stack, 1, Len(stack) - 1)

(* the record of the call of the top frame, ending now *)
Returned(result, answer, moves) ==
    [op |-> Top.op, caller |-> Top.caller, result |-> result,
     depth |-> Len(stack) - 1, args |-> Top.args, amount |-> Top.amount,
     rewards |-> Top.rewards, attempts |-> Top.attempts,
     answers |-> Append(Top.answers, answer), moves |-> moves,
     events |-> IF result = "ok"
                THEN Emitted(Top.op, Top.caller, Top.args, Top.amount,
                             Top.apy, Top.rewards, stakingTiers')
                ELSE <<>>,
     pre |-> Top.snap, post |-> Storage']

\* A rejected call changes nothing but `last`, so every call that could
\* follow it could follow the state it started from: the model explores
\* the calls from there only.
\* A call made while another is open comes from the token's callback; the
\* accounts that are contracts and can be called back are Hooked.
CanCall(caller) ==
    /\ Len(stack) < MaxDepth
    /\ stack # <<>> => caller \in Hooked
    /\ last.result \in {"none", "ok"}
\* the call got past its checks: it counts against MaxCalls
Accepted == calls < MaxCalls /\ calls' = calls + 1
Rejected == calls' = calls
Move(b, from, to, amt) ==
    [b EXCEPT ![from] = b[from] - amt, ![to] = b[to] + amt]
Answer(b, from, amt) ==
    {a \in TokenAnswers : a = "ok" => b[from] >= amt}

\* the value returned by the token not required to be true
CheckedLoose(answer) == answer # "revert"

\* require(token.transfer(..)) lets the call go on
Checked(answer) == answer = "ok"
\* token.transfer(..) with the returned value dropped lets the call go on
Unchecked(answer) == answer # "revert"
Moved(b, answer, from, to, amt) ==
    IF answer = "ok" THEN Move(b, from, to, amt) ELSE b
Sent(answer, token, from, to, amt) ==
    IF answer = "ok"
    THEN <<[token |-> token, from |-> from, to |-> to, amt |-> amt]>>
    ELSE <<>>
Failure(answer, message) ==
    IF answer = "false" THEN message ELSE "token reverted"

(* ------------------------------- views --------------------------------- *)
\* h is <<quotient, remainder>> of a * (b \div 2) by d; the result is that
\* of a * b by d
MulDivStep(h, a, b, d) ==
    LET r2 == (2 * h[2]) % d
        add == IF b % 2 = 1 THEN a ELSE 0
        r3 == r2 + (add % d)
    IN  <<2 * h[1] + ((2 * h[2]) \div d) + (add \div d) + (r3 \div d), r3 % d>>

RECURSIVE MulDivMod(_, _, _)
\* <<quotient, remainder>> of a * b by d, by doubling, so that no
\* intermediate value leaves the 32-bit integers of TLC (d < 2^30); the
\* half is bound to h so that it is computed once
MulDivMod(a, b, d) ==
    IF b = 0 THEN <<0, 0>>
    ELSE CHOOSE r \in {MulDivStep(h, a, b, d) :
                           h \in {MulDivMod(a, b \div 2, d)}} : TRUE

\* the result kept in a narrow width, wrapping around
AccruedWrapped(amount, apy, timeElapsed) ==
    (MulDivMod(amount * apy, timeElapsed, YEAR)[1] \div PERCENTAGE_DENOMINATOR)
        % 8

\* the quotient rounded up instead of down
AccruedRoundedUp(amount, apy, timeElapsed) ==
    LET qr == MulDivMod(amount * apy, timeElapsed, YEAR)
    IN  (qr[1] \div PERCENTAGE_DENOMINATOR)
        + (IF qr[1] % PERCENTAGE_DENOMINATOR = 0 /\ qr[2] = 0 THEN 0 ELSE 1)

\* (amount * apy * timeElapsed) / (365 days * PERCENTAGE_DENOMINATOR)
Accrued(amount, apy, timeElapsed) ==
    MulDivMod(amount * apy, timeElapsed, YEAR)[1] \div PERCENTAGE_DENOMINATOR

HasStake(s) == s.initialized /\ s.amount > 0

TierIndex(tiers, lockPeriod) ==
    LET hits == {i \in 1..Len(tiers) : tiers[i].lockPeriod = lockPeriod}
    IN  IF hits = {} THEN 0 ELSE CHOOSE i \in hits : \A j \in hits : i <= j

\* the scan falling through to the default value instead of reverting
getAPYForLockPeriodDefault(lockPeriod) ==
    LET i == TierIndex(stakingTiers, lockPeriod)
    IN  IF i = 0 THEN 0 ELSE stakingTiers[i].apy

\* -1 stands for revert("Invalid lock period")
getAPYForLockPeriod(lockPeriod) ==
    LET i == TierIndex(stakingTiers, lockPeriod)
    IN  IF i = 0 THEN -1 ELSE stakingTiers[i].apy

\* the rate read from the registry instead of the record
rewardsOfLive(stakeInfo, timestamp) ==
    LET lockPeriod ==
            (stakeInfo.lockEndTime - stakeInfo.stakingStartTime) \div DAY
    IN  IF ~stakeInfo.initialized \/ stakeInfo.amount = 0 THEN 0
        ELSE IF timestamp < stakeInfo.lastRewardClaimTime THEN -1
        ELSE Accrued(stakeInfo.amount, getAPYForLockPeriod(lockPeriod),
                     timestamp - stakeInfo.lastRewardClaimTime)

\* the time elapsed counted from the start of the stake
rewardsOfSinceStart(stakeInfo, timestamp) ==
    IF ~stakeInfo.initialized \/ stakeInfo.amount = 0 THEN 0
    ELSE IF timestamp < stakeInfo.lastRewardClaimTime THEN -1
    ELSE Accrued(stakeInfo.amount, stakeInfo.apy,
                 timestamp - stakeInfo.stakingStartTime)

\* the body of calculateRewards on a record at a block time;
\* -1 stands for the panic of the checked subtraction
rewardsOf(stakeInfo, timestamp) ==
    IF ~stakeInfo.initialized \/ stakeInfo.amount = 0 THEN 0
    ELSE IF timestamp < stakeInfo.lastRewardClaimTime THEN -1
    ELSE Accrued(stakeInfo.amount, stakeInfo.apy,
                 timestamp - stakeInfo.lastRewardClaimTime)

calculateRewards(user) == rewardsOf(stakes[user], now)

(* ------------------------------ modifiers ------------------------------ *)
nonReentrant == status # ENTERED
whenNotPaused == ~paused
onlyOwner(caller) == caller = Owner

Init ==
    /\ stakes = [a \in Accounts |-> EmptyStake]
    /\ totalStaked = 0
    /\ rewardPoolBalance = 0
    /\ stakingTiers = <<[lockPeriod |-> 30, apy |-> 1500],
                        [lockPeriod |-> 60, apy |-> 2250],
                        [lockPeriod |-> 90, apy |-> 3000]>>
    /\ paused = FALSE
    /\ status = NOT_ENTERED
    /\ balance = [h \in Holders |->
                       IF h \in Accounts THEN InitialBalance ELSE Donated]
    /\ otherBalance = [h \in Holders |-> IF h = THIS THEN StuckBalance ELSE 0]
    /\ now = 0
    /\ stack = <<>>
    /\ calls = 0
    /\ paid = [a \in Accounts |-> 0]
    /\ funded = 0
    /\ last = NoCall

(* ------------------------------- stake --------------------------------- *)
\* stake without require(amount > 0)
stakeErrorNoAmount(caller, amount, lockPeriodInDays) ==
    IF ~nonReentrant THEN "ReentrancyGuardReentrantCall"
    ELSE IF ~whenNotPaused THEN "EnforcedPause"
    ELSE IF ~(~stakes[caller].initialized \/ stakes[caller].amount = 0)
         THEN "Existing stake found"
    ELSE IF getAPYForLockPeriod(lockPeriodInDays) = -1
         THEN "Invalid lock period"
    ELSE "none"

\* stake without the check for an existing stake
stakeErrorNoExisting(caller, amount, lockPeriodInDays) ==
    IF ~nonReentrant THEN "ReentrancyGuardReentrantCall"
    ELSE IF ~whenNotPaused THEN "EnforcedPause"
    ELSE IF ~(amount > 0) THEN "Cannot stake 0 tokens"
    ELSE IF getAPYForLockPeriod(lockPeriodInDays) = -1
         THEN "Invalid lock period"
    ELSE "none"

stakeError(caller, amount, lockPeriodInDays) ==
    IF ~nonReentrant THEN "ReentrancyGuardReentrantCall"
    ELSE IF ~whenNotPaused THEN "EnforcedPause"
    ELSE IF ~(amount > 0) THEN "Cannot stake 0 tokens"
    ELSE IF ~(~stakes[caller].initialized \/ stakes[caller].amount = 0)
         THEN "Existing stake found"
    ELSE IF getAPYForLockPeriod(lockPeriodInDays) = -1
         THEN "Invalid lock period"
    ELSE "none"

\* the lock period taken as seconds
lockEndTimeOfSeconds(timestamp, lockPeriodInDays) ==
    timestamp + lockPeriodInDays

\* uint256 lockEndTime = block.timestamp + (lockPeriodInDays * 1 days);
lockEndTimeOf(timestamp, lockPeriodInDays) ==
    timestamp + lockPeriodInDays * DAY

stake(caller, amount, lockPeriodInDays) ==
    /\ CanCall(caller)
    /\ LET err == stakeError(caller, amount, lockPeriodInDays)
           args == <<amount, lockPeriodInDays>>
       IN  IF err # "none"
           THEN /\ Rejected
                /\ UNCHANGED <<stakes, totalStaked, rewardPoolBalance,
                               stakingTiers, paused, status, balance,
                               otherBalance, now, stack, paid, funded>>
                /\ last' = Ended("stake", caller, args, err)
           ELSE /\ Accepted
                /\ stack' = Append(stack,
                        Frame("stake", caller, args, "pull", amount,
                              getAPYForLockPeriod(lockPeriodInDays), 0))
                /\ status' = ENTERED
                /\ last' = NoCall
                /\ UNCHANGED <<stakes, totalStaked, rewardPoolBalance,
                               stakingTiers, paused, balance, otherBalance,
                               now, paid, funded>>

\* magToken.transferFrom(msg.sender, address(this), amount) has answered
stakeReturn(answer) ==
    /\ stack # <<>>
    /\ Top.op = "stake"
    /\ answer \in Answer(balance, Top.caller, Top.amount)
    /\ LET f == Top
       IN  IF Checked(answer)
           THEN /\ balance' = Moved(balance, answer, f.caller, THIS, f.amount)
                /\ stakes' = [stakes EXCEPT ![f.caller] =
                       [amount |-> f.amount,
                        stakingStartTime |-> now,
                        lockEndTime |-> lockEndTimeOf(now, f.args[2]),
                        apy |-> f.apy,
                        lastRewardClaimTime |-> now,
                        initialized |-> TRUE]]
                /\ totalStaked' = totalStaked + f.amount
                /\ status' = NOT_ENTERED
                /\ paid' = [paid EXCEPT ![f.caller] = 0]
                /\ funded' = funded
                /\ UNCHANGED <<rewardPoolBalance, stakingTiers, paused,
                               otherBalance>>
                /\ last' = Returned("ok", answer,
                       Sent(answer, MAG, f.caller, THIS, f.amount))
           ELSE /\ Revert(f.snap)
                /\ last' = Returned(Failure(answer, "Transfer failed"),
                                    answer, <<>>)
    /\ stack' = Pop
    /\ UNCHANGED <<now, calls>>

(* ------------------------------ unstake -------------------------------- *)
\* unstake without the check of the lock
unstakeErrorNoLock(caller) ==
    IF ~nonReentrant THEN "ReentrancyGuardReentrantCall"
    ELSE IF ~HasStake(stakes[caller]) THEN "No stake found"
    ELSE IF calculateRewards(caller) = -1 THEN "Panic"
    ELSE "none"

\* unstake with the lock compared by > instead of >=
unstakeErrorStrict(caller) ==
    IF ~nonReentrant THEN "ReentrancyGuardReentrantCall"
    ELSE IF ~HasStake(stakes[caller]) THEN "No stake found"
    ELSE IF ~(now > stakes[caller].lockEndTime) THEN "Stake is still locked"
    ELSE IF calculateRewards(caller) = -1 THEN "Panic"
    ELSE "none"

\* unstake with the whenNotPaused modifier added
unstakeErrorWhenNotPaused(caller) ==
    IF ~nonReentrant THEN "ReentrancyGuardReentrantCall"
    ELSE IF ~whenNotPaused THEN "EnforcedPause"
    ELSE IF ~HasStake(stakes[caller]) THEN "No stake found"
    ELSE IF ~(now >= stakes[caller].lockEndTime) THEN "Stake is still locked"
    ELSE IF calculateRewards(caller) = -1 THEN "Panic"
    ELSE "none"

unstakeError(caller) ==
    IF ~nonReentrant THEN "ReentrancyGuardReentrantCall"
    ELSE IF ~HasStake(stakes[caller]) THEN "No stake found"
    ELSE IF ~(now >= stakes[caller].lockEndTime) THEN "Stake is still locked"
    ELSE IF calculateRewards(caller) = -1 THEN "Panic"
    ELSE "none"

\* the amount set to 0, the rest of the record kept
closeStakeKeepFlag(caller, amount) ==
    /\ stakes' = [stakes EXCEPT ![caller].amount = 0]
    /\ totalStaked' = totalStaked - amount

\* every record deleted instead of the caller's
closeStakeEveryone(caller, amount) ==
    /\ stakes' = [a \in Accounts |-> EmptyStake]
    /\ totalStaked' = totalStaked - amount

\* the record deleted, the total left as it was
closeStakeKeepTotal(caller, amount) ==
    /\ stakes' = [stakes EXCEPT ![caller] = EmptyStake]
    /\ totalStaked' = totalStaked

\* delete stakes[msg.sender]; totalStaked -= amount;
closeStake(caller, amount) ==
    /\ stakes' = [stakes EXCEPT ![caller] = EmptyStake]
    /\ totalStaked' = totalStaked - amount

\* unstake paying no reward
unstakeRewardsNone(caller) == 0

\* uint256 rewards = calculateRewards(msg.sender);
unstakeRewards(caller) == calculateRewards(caller)

unstake(caller) ==
    /\ CanCall(caller)
    /\ LET err == unstakeError(caller)
           amount == stakes[caller].amount
           rewards == unstakeRewards(caller)
       IN  IF err # "none"
           THEN /\ Rejected
                /\ UNCHANGED <<stakes, totalStaked, rewardPoolBalance,
                               stakingTiers, paused, status, balance,
                               otherBalance, now, stack, paid, funded>>
                /\ last' = Ended("unstake", caller, <<>>, err)
           ELSE /\ Accepted
                /\ closeStake(caller, amount)
                /\ status' = ENTERED
                /\ stack' = Append(stack,
                       Frame("unstake", caller, <<>>, "principal", amount,
                             0, rewards))
                /\ last' = NoCall
                /\ UNCHANGED <<rewardPoolBalance, stakingTiers, paused,
                               balance, otherBalance, now, paid, funded>>

\* magToken.transfer(msg.sender, amount) has answered
unstakePrincipalReturn(answer) ==
    /\ stack # <<>>
    /\ Top.op = "unstake"
    /\ Top.pc = "principal"
    /\ answer \in Answer(balance, THIS, Top.amount)
    /\ LET f == Top
           sent == Sent(answer, MAG, THIS, f.caller, f.amount)
       IN  IF ~Checked(answer)
           THEN /\ Revert(f.snap)
                /\ last' = Returned(Failure(answer, "Transfer failed"),
                                    answer, <<>>)
                /\ stack' = Pop
           ELSE /\ balance' = Moved(balance, answer, THIS, f.caller, f.amount)
                /\ UNCHANGED <<stakes, totalStaked, rewardPoolBalance,
                               stakingTiers, paused, otherBalance,
                               paid, funded>>
                /\ IF f.rewards > 0
                   THEN /\ stack' = [stack EXCEPT ![Len(stack)] =
                               [f EXCEPT !.pc = "rewards", !.moves = sent,
                                         !.answers = <<answer>>,
                                         !.attempts = 2]]
                        /\ last' = NoCall
                        /\ UNCHANGED status
                   ELSE /\ status' = NOT_ENTERED
                        /\ last' = Returned("ok", answer, sent)
                        /\ stack' = Pop
    /\ UNCHANGED <<now, calls>>

\* magToken.transfer(msg.sender, rewards) has answered
unstakeRewardsReturn(answer) ==
    /\ stack # <<>>
    /\ Top.op = "unstake"
    /\ Top.pc = "rewards"
    /\ answer \in Answer(balance, THIS, Top.rewards)
    /\ LET f == Top
       IN  IF ~Checked(answer)
           THEN /\ Revert(f.snap)
                /\ last' = Returned(Failure(answer, "Rewards transfer failed"),
                                    answer, <<>>)
           ELSE /\ balance' = Moved(balance, answer, THIS, f.caller, f.rewards)
                /\ paid' = [paid EXCEPT ![f.caller] = @ + f.rewards]
                /\ funded' = funded
                /\ status' = NOT_ENTERED
                /\ UNCHANGED <<stakes, totalStaked, rewardPoolBalance,
                               stakingTiers, paused, otherBalance>>
                /\ last' = Returned("ok", answer, f.moves \o
                       Sent(answer, MAG, THIS, f.caller, f.rewards))
    /\ stack' = Pop
    /\ UNCHANGED <<now, calls>>

(* ---------------------------- claimRewards ----------------------------- *)
\* claimRewards without the whenNotPaused modifier
claimRewardsErrorNoPause(caller) ==
    IF ~nonReentrant THEN "ReentrancyGuardReentrantCall"
    ELSE IF ~HasStake(stakes[caller]) THEN "No stake found"
    ELSE IF calculateRewards(caller) = -1 THEN "Panic"
    ELSE IF ~(calculateRewards(caller) > 0) THEN "No rewards to claim"
    ELSE "none"

\* claimRewards without require(rewards > 0)
claimRewardsErrorZeroOk(caller) ==
    IF ~nonReentrant THEN "ReentrancyGuardReentrantCall"
    ELSE IF ~whenNotPaused THEN "EnforcedPause"
    ELSE IF ~HasStake(stakes[caller]) THEN "No stake found"
    ELSE IF calculateRewards(caller) = -1 THEN "Panic"
    ELSE "none"

\* claimRewards refusing a reward above the tracked pool
claimRewardsErrorPoolLimited(caller) ==
    IF ~nonReentrant THEN "ReentrancyGuardReentrantCall"
    ELSE IF ~whenNotPaused THEN "EnforcedPause"
    ELSE IF ~HasStake(stakes[caller]) THEN "No stake found"
    ELSE IF calculateRewards(caller) = -1 THEN "Panic"
    ELSE IF ~(calculateRewards(caller) > 0) THEN "No rewards to claim"
    ELSE IF calculateRewards(caller) > rewardPoolBalance
         THEN "Insufficient reward pool"
    ELSE "none"

claimRewardsError(caller) ==
    IF ~nonReentrant THEN "ReentrancyGuardReentrantCall"
    ELSE IF ~whenNotPaused THEN "EnforcedPause"
    ELSE IF ~HasStake(stakes[caller]) THEN "No stake found"
    ELSE IF calculateRewards(caller) = -1 THEN "Panic"
    ELSE IF ~(calculateRewards(caller) > 0) THEN "No rewards to claim"
    ELSE "none"

\* the start of the stake moved to the time of the claim as well
markClaimedRestart(caller) ==
    stakes' = [stakes EXCEPT ![caller].lastRewardClaimTime = now,
                             ![caller].stakingStartTime = now]

\* the claim time set to the end of the lock
markClaimedAtLockEnd(caller) ==
    stakes' = [stakes EXCEPT ![caller].lastRewardClaimTime =
                                 stakes[caller].lockEndTime]

\* the claim time not written before the push
markClaimedLate(caller) ==
    stakes' = stakes

\* stakeInfo.lastRewardClaimTime = block.timestamp;
markClaimed(caller) ==
    stakes' = [stakes EXCEPT ![caller].lastRewardClaimTime = now]

\* the reward to pay rounded up
claimedRewardsRoundedUp(caller) ==
    AccruedRoundedUp(stakes[caller].amount, stakes[caller].apy,
                     now - stakes[caller].lastRewardClaimTime)

\* uint256 rewards = calculateRewards(msg.sender);
claimedRewards(caller) == calculateRewards(caller)

claimRewards(caller) ==
    /\ CanCall(caller)
    /\ LET err == claimRewardsError(caller)
           rewards == claimedRewards(caller)
       IN  IF err # "none"
           THEN /\ Rejected
                /\ UNCHANGED <<stakes, totalStaked, rewardPoolBalance,
                               stakingTiers, paused, status, balance,
                               otherBalance, now, stack, paid, funded>>
                /\ last' = Ended("claimRewards", caller, <<>>, err)
           ELSE /\ Accepted
                /\ markClaimed(caller)
                /\ status' = ENTERED
                /\ stack' = Append(stack,
                       Frame("claimRewards", caller, <<>>, "push", 0, 0,
                             rewards))
                /\ last' = NoCall
                /\ UNCHANGED <<totalStaked, rewardPoolBalance, stakingTiers,
                               paused, balance, otherBalance, now,
                               paid, funded>>

\* magToken.transfer(msg.sender, rewards) has answered
claimRewardsReturn(answer) ==
    /\ stack # <<>>
    /\ Top.op = "claimRewards"
    /\ answer \in Answer(balance, THIS, Top.rewards)
    /\ LET f == Top
       IN  IF ~Checked(answer)
           THEN /\ Revert(f.snap)
                /\ last' = Returned(Failure(answer, "Rewards transfer failed"),
                                    answer, <<>>)
           ELSE /\ balance' = Moved(balance, answer, THIS, f.caller, f.rewards)
                /\ paid' = [paid EXCEPT ![f.caller] = @ + f.rewards]
                /\ funded' = funded
                /\ status' = NOT_ENTERED
                /\ UNCHANGED <<stakes, totalStaked, rewardPoolBalance,
                               stakingTiers, paused, otherBalance>>
                /\ last' = Returned("ok", answer,
                       Sent(answer, MAG, THIS, f.caller, f.rewards))
    /\ stack' = Pop
    /\ UNCHANGED <<now, calls>>

(* -------------------------- emergencyWithdraw -------------------------- *)
emergencyWithdrawError(caller) ==
    IF ~nonReentrant THEN "ReentrancyGuardReentrantCall"
    ELSE IF ~HasStake(stakes[caller]) THEN "No stake found"
    ELSE "none"

\* the accrued reward added to the amount pushed
emergencyAmountWithRewards(caller) ==
    stakes[caller].amount + calculateRewards(caller)

\* uint256 amount = stakeInfo.amount;
emergencyAmount(caller) == stakes[caller].amount

emergencyWithdraw(caller) ==
    /\ CanCall(caller)
    /\ LET err == emergencyWithdrawError(caller)
           amount == emergencyAmount(caller)
       IN  IF err # "none"
           THEN /\ Rejected
                /\ UNCHANGED <<stakes, totalStaked, rewardPoolBalance,
                               stakingTiers, paused, status, balance,
                               otherBalance, now, stack, paid, funded>>
                /\ last' = Ended("emergencyWithdraw", caller, <<>>, err)
           ELSE /\ Accepted
                /\ closeStake(caller, amount)
                /\ status' = ENTERED
                /\ stack' = Append(stack,
                       Frame("emergencyWithdraw", caller, <<>>, "push",
                             amount, 0, 0))
                /\ last' = NoCall
                /\ UNCHANGED <<rewardPoolBalance, stakingTiers, paused,
                               balance, otherBalance, now, paid, funded>>

\* magToken.transfer(msg.sender, amount) has answered
emergencyWithdrawReturn(answer) ==
    /\ stack # <<>>
    /\ Top.op = "emergencyWithdraw"
    /\ answer \in Answer(balance, THIS, Top.amount)
    /\ LET f == Top
       IN  IF ~Checked(answer)
           THEN /\ Revert(f.snap)
                /\ last' = Returned(Failure(answer, "Transfer failed"),
                                    answer, <<>>)
           ELSE /\ balance' = Moved(balance, answer, THIS, f.caller, f.amount)
                /\ status' = NOT_ENTERED
                /\ UNCHANGED <<stakes, totalStaked, rewardPoolBalance,
                               stakingTiers, paused, otherBalance,
                               paid, funded>>
                /\ last' = Returned("ok", answer,
                       Sent(answer, MAG, THIS, f.caller, f.amount))
    /\ stack' = Pop
    /\ UNCHANGED <<now, calls>>

(* --------------------------- fundRewardPool ---------------------------- *)
\* fundRewardPool with a whenNotPaused modifier
fundRewardPoolErrorWhenNotPaused(caller, amount) ==
    IF ~whenNotPaused THEN "EnforcedPause"
    ELSE IF ~(amount > 0) THEN "Amount must be greater than 0"
    ELSE "none"

\* fundRewardPool has no modifier: its one check is that of the amount
fundRewardPoolError(caller, amount) ==
    IF ~(amount > 0) THEN "Amount must be greater than 0"
    ELSE "none"

\* the tracked balance set to the amount instead of raised by it
fundedPoolReplaced(amount) == amount

\* rewardPoolBalance += amount;
fundedPool(amount) == rewardPoolBalance + amount

fundRewardPool(caller, amount) ==
    /\ CanCall(caller)
    /\ IF fundRewardPoolError(caller, amount) # "none"
       THEN /\ Rejected
            /\ UNCHANGED <<stakes, totalStaked, rewardPoolBalance,
                           stakingTiers, paused, status, balance,
                           otherBalance, now, stack, paid, funded>>
            /\ last' = Ended("fundRewardPool", caller, <<amount>>,
                             fundRewardPoolError(caller, amount))
       ELSE /\ Accepted
            /\ rewardPoolBalance' = fundedPool(amount)
            /\ stack' = Append(stack,
                   Frame("fundRewardPool", caller, <<amount>>, "pull",
                         amount, 0, 0))
            /\ last' = NoCall
            /\ UNCHANGED <<stakes, totalStaked, stakingTiers, paused, status,
                           balance, otherBalance, now, paid, funded>>

\* magToken.transferFrom(msg.sender, address(this), amount) has answered
fundRewardPoolReturn(answer) ==
    /\ stack # <<>>
    /\ Top.op = "fundRewardPool"
    /\ answer \in Answer(balance, Top.caller, Top.amount)
    /\ LET f == Top
       IN  IF ~Checked(answer)
           THEN /\ Revert(f.snap)
                /\ last' = Returned(Failure(answer, "Transfer failed"),
                                    answer, <<>>)
           ELSE /\ balance' = Moved(balance, answer, f.caller, THIS, f.amount)
                /\ funded' = funded + f.amount
                /\ UNCHANGED <<stakes, totalStaked, rewardPoolBalance,
                               stakingTiers, paused, status, otherBalance,
                               paid>>
                /\ last' = Returned("ok", answer,
                       Sent(answer, MAG, f.caller, THIS, f.amount))
    /\ stack' = Pop
    /\ UNCHANGED <<now, calls>>

(* ---------------------------- recoverERC20 ----------------------------- *)
\* recoverERC20 without the check of the token
recoverERC20ErrorAnyToken(caller, tokenAddress) ==
    IF ~onlyOwner(caller) THEN "OwnableUnauthorizedAccount"
    ELSE "none"

recoverERC20Error(caller, tokenAddress) ==
    IF ~onlyOwner(caller) THEN "OwnableUnauthorizedAccount"
    ELSE IF ~(tokenAddress # MAG) THEN "Cannot recover staking token"
    ELSE "none"

recoverERC20(caller, tokenAddress, tokenAmount) ==
    /\ CanCall(caller)
    /\ LET err == recoverERC20Error(caller, tokenAddress)
           args == <<tokenAddress, tokenAmount>>
       IN  IF err # "none"
           THEN /\ Rejected
                /\ UNCHANGED <<stakes, totalStaked, rewardPoolBalance,
                               stakingTiers, paused, status, balance,
                               otherBalance, now, stack, paid, funded>>
                /\ last' = Ended("recoverERC20", caller, args, err)
           ELSE /\ Accepted
                /\ stack' = Append(stack,
                       Frame("recoverERC20", caller, args, "push",
                             tokenAmount, 0, 0))
                /\ last' = NoCall
                /\ UNCHANGED <<stakes, totalStaked, rewardPoolBalance,
                               stakingTiers, paused, status, balance,
                               otherBalance, now, paid, funded>>

\* IERC20(tokenAddress).transfer(owner(), tokenAmount) has answered
recoverERC20Return(answer) ==
    /\ stack # <<>>
    /\ Top.op = "recoverERC20"
    /\ answer \in Answer(otherBalance, THIS, Top.amount)
    /\ LET f == Top
       IN  IF ~Unchecked(answer)
           THEN /\ Revert(f.snap)
                /\ last' = Returned("token reverted", answer, <<>>)
           ELSE /\ otherBalance' =
                       Moved(otherBalance, answer, THIS, Owner, f.amount)
                /\ UNCHANGED <<stakes, totalStaked, rewardPoolBalance,
                               stakingTiers, paused, status, balance,
                               paid, funded>>
                /\ last' = Returned("ok", answer,
                       Sent(answer, FOREIGN, THIS, Owner, f.amount))
    /\ stack' = Pop
    /\ UNCHANGED <<now, calls>>

(* ------------------------------- admin --------------------------------- *)
\* addStakingTier without require(lockPeriod > 0)
addStakingTierErrorZeroPeriod(caller, lockPeriod, apy) ==
    IF ~onlyOwner(caller) THEN "OwnableUnauthorizedAccount"
    ELSE IF ~(apy > 0 /\ apy <= MAX_APY) THEN "Invalid APY"
    ELSE IF \E i \in 1..Len(stakingTiers) :
                ~(stakingTiers[i].lockPeriod # lockPeriod)
         THEN "Lock period already exists"
    ELSE "none"

\* addStakingTier comparing with the last tier only
addStakingTierErrorLastOnly(caller, lockPeriod, apy) ==
    IF ~onlyOwner(caller) THEN "OwnableUnauthorizedAccount"
    ELSE IF ~(lockPeriod > 0) THEN "Invalid lock period"
    ELSE IF ~(apy > 0 /\ apy <= MAX_APY) THEN "Invalid APY"
    ELSE IF /\ Len(stakingTiers) > 0
            /\ ~(stakingTiers[Len(stakingTiers)].lockPeriod # lockPeriod)
         THEN "Lock period already exists"
    ELSE "none"

\* addStakingTier without the scan for the lock period
addStakingTierErrorNoDuplicate(caller, lockPeriod, apy) ==
    IF ~onlyOwner(caller) THEN "OwnableUnauthorizedAccount"
    ELSE IF ~(lockPeriod > 0) THEN "Invalid lock period"
    ELSE IF ~(apy > 0 /\ apy <= MAX_APY) THEN "Invalid APY"
    ELSE "none"

addStakingTierError(caller, lockPeriod, apy) ==
    IF ~onlyOwner(caller) THEN "OwnableUnauthorizedAccount"
    ELSE IF ~(lockPeriod > 0) THEN "Invalid lock period"
    ELSE IF ~(apy > 0 /\ apy <= MAX_APY) THEN "Invalid APY"
    ELSE IF \E i \in 1..Len(stakingTiers) :
                ~(stakingTiers[i].lockPeriod # lockPeriod)
         THEN "Lock period already exists"
    ELSE "none"

\* the new tier put in front of the others
withNewTierInFront(tiers, lockPeriod, apy) ==
    <<[lockPeriod |-> lockPeriod, apy |-> apy]>> \o tiers

\* stakingTiers.push(StakingTier(lockPeriod, apy));
withNewTier(tiers, lockPeriod, apy) ==
    Append(tiers, [lockPeriod |-> lockPeriod, apy |-> apy])

addStakingTier(caller, lockPeriod, apy) ==
    /\ CanCall(caller)
    /\ LET err == addStakingTierError(caller, lockPeriod, apy)
       IN  /\ IF err # "none" THEN Rejected ELSE Accepted
           /\ stakingTiers' =
                  IF err # "none" THEN stakingTiers
                  ELSE withNewTier(stakingTiers, lockPeriod, apy)
           /\ UNCHANGED <<stakes, totalStaked, rewardPoolBalance, paused,
                          status, balance, otherBalance, now, stack,
                          paid, funded>>
           /\ last' = Ended("addStakingTier", caller, <<lockPeriod, apy>>,
                            IF err # "none" THEN err ELSE "ok")

\* updateStakingTier without the check of the rate
updateStakingTierErrorAnyApy(caller, index, apy) ==
    IF ~onlyOwner(caller) THEN "OwnableUnauthorizedAccount"
    ELSE IF ~(index < Len(stakingTiers)) THEN "Invalid tier index"
    ELSE "none"

\* updateStakingTier without the onlyOwner modifier
updateStakingTierErrorAnyone(caller, index, apy) ==
    IF ~(index < Len(stakingTiers)) THEN "Invalid tier index"
    ELSE IF ~(apy > 0 /\ apy <= MAX_APY) THEN "Invalid APY"
    ELSE "none"

updateStakingTierError(caller, index, apy) ==
    IF ~onlyOwner(caller) THEN "OwnableUnauthorizedAccount"
    ELSE IF ~(index < Len(stakingTiers)) THEN "Invalid tier index"
    ELSE IF ~(apy > 0 /\ apy <= MAX_APY) THEN "Invalid APY"
    ELSE "none"

\* the rate written to the tier after the one asked for
withTierApyOffByOne(tiers, index, apy) ==
    [tiers EXCEPT ![index + 2].apy = apy]

\* the rate written to the other field of the tier
withTierApyWrongField(tiers, index, apy) ==
    [tiers EXCEPT ![index + 1].lockPeriod = apy]

\* stakingTiers[index].apy = apy;
\* index counts from 0 as in the source; the sequence counts from 1
withTierApy(tiers, index, apy) ==
    [tiers EXCEPT ![index + 1].apy = apy]

updateStakingTier(caller, index, apy) ==
    /\ CanCall(caller)
    /\ LET err == updateStakingTierError(caller, index, apy)
       IN  /\ IF err # "none" THEN Rejected ELSE Accepted
           /\ stakingTiers' =
                  IF err # "none" THEN stakingTiers
                  ELSE withTierApy(stakingTiers, index, apy)
           /\ UNCHANGED <<stakes, totalStaked, rewardPoolBalance, paused,
                          status, balance, otherBalance, now, stack,
                          paid, funded>>
           /\ last' = Ended("updateStakingTier", caller, <<index, apy>>,
                            IF err # "none" THEN err ELSE "ok")

pauseError(caller) ==
    IF ~onlyOwner(caller) THEN "OwnableUnauthorizedAccount"
    ELSE IF ~whenNotPaused THEN "EnforcedPause"
    ELSE "none"

pause(caller) ==
    /\ CanCall(caller)
    /\ LET err == pauseError(caller)
       IN  /\ IF err # "none" THEN Rejected ELSE Accepted
           /\ paused' = IF err # "none" THEN paused ELSE TRUE
           /\ UNCHANGED <<stakes, totalStaked, rewardPoolBalance,
                          stakingTiers, status, balance, otherBalance, now,
                          stack, paid, funded>>
           /\ last' = Ended("pause", caller, <<>>,
                            IF err # "none" THEN err ELSE "ok")

unpauseError(caller) ==
    IF ~onlyOwner(caller) THEN "OwnableUnauthorizedAccount"
    ELSE IF ~paused THEN "ExpectedPause"
    ELSE "none"

unpause(caller) ==
    /\ CanCall(caller)
    /\ LET err == unpauseError(caller)
       IN  /\ IF err # "none" THEN Rejected ELSE Accepted
           /\ paused' = IF err # "none" THEN paused ELSE FALSE
           /\ UNCHANGED <<stakes, totalStaked, rewardPoolBalance,
                          stakingTiers, status, balance, otherBalance, now,
                          stack, paid, funded>>
           /\ last' = Ended("unpause", caller, <<>>,
                            IF err # "none" THEN err ELSE "ok")

(* ------------------------------- clock --------------------------------- *)
Tick ==
    /\ stack = <<>>
    /\ now + Stride <= MaxTicks * Stride
    /\ now' = now + Stride
    /\ last' = NoCall
    /\ UNCHANGED <<stakes, totalStaked, rewardPoolBalance, stakingTiers,
                   paused, status, balance, otherBalance, stack, calls,
                   paid, funded>>

Next ==
    \/ \E c \in Accounts, i \in StakeInputs : stake(c, i[1], i[2])
    \/ \E ans \in TokenAnswers : stakeReturn(ans)
    \/ \E c \in Accounts : unstake(c)
    \/ \E ans \in TokenAnswers : unstakePrincipalReturn(ans)
    \/ \E ans \in TokenAnswers : unstakeRewardsReturn(ans)
    \/ \E c \in Accounts : claimRewards(c)
    \/ \E ans \in TokenAnswers : claimRewardsReturn(ans)
    \/ \E c \in Accounts : emergencyWithdraw(c)
    \/ \E ans \in TokenAnswers : emergencyWithdrawReturn(ans)
    \/ \E c \in Accounts, a \in FundAmounts : fundRewardPool(c, a)
    \/ \E ans \in TokenAnswers : fundRewardPoolReturn(ans)
    \/ \E i \in RecoverInputs : recoverERC20(i[1], i[2], i[3])
    \/ \E ans \in TokenAnswers : recoverERC20Return(ans)
    \/ \E i \in AddTierInputs : addStakingTier(i[1], i[2], i[3])
    \/ \E i \in UpdateTierInputs : updateStakingTier(i[1], i[2], i[3])
    \/ \E c \in Accounts : pause(c)
    \/ \E c \in Accounts : unpause(c)
    \/ Tick

Spec == Init /\ [][Next]_vars

\* the ledger after deployment and a stake of InitialBalance for 30 days by
\* every account at time 0, nothing else having been sent to the contract
InitStaked ==
    /\ stakes = [a \in Accounts |->
                    [amount |-> InitialBalance,
                     stakingStartTime |-> 0,
                     lockEndTime |-> 30 * DAY,
                     apy |-> 1500,
                     lastRewardClaimTime |-> 0,
                     initialized |-> TRUE]]
    /\ totalStaked = Cardinality(Accounts) * InitialBalance
    /\ rewardPoolBalance = 0
    /\ stakingTiers = <<[lockPeriod |-> 30, apy |-> 1500],
                        [lockPeriod |-> 60, apy |-> 2250],
                        [lockPeriod |-> 90, apy |-> 3000]>>
    /\ paused = FALSE
    /\ status = NOT_ENTERED
    /\ balance = [h \in Holders |->
                       IF h \in Accounts THEN 0
                       ELSE Cardinality(Accounts) * InitialBalance]
    /\ otherBalance = [h \in Holders |-> IF h = THIS THEN StuckBalance ELSE 0]
    /\ now = 0
    /\ stack = <<>>
    /\ calls = 0
    /\ paid = [a \in Accounts |-> 0]
    /\ funded = 0
    /\ last = NoCall

SpecStaked == InitStaked /\ [][Next]_vars

(* ------------------------- the reward query ---------------------------- *)
\* calculateRewards(user) called from outside, between calls or from the
\* token's callback; a view: it writes nothing
calculateRewardsView(user) ==
    /\ last.result \in {"none", "ok"}
    /\ Accepted
    /\ UNCHANGED <<stakes, totalStaked, rewardPoolBalance, stakingTiers,
                   paused, status, balance, otherBalance, now, stack,
                   paid, funded>>
    /\ last' = [Ended("calculateRewards", user, <<user>>,
                      IF calculateRewards(user) = -1 THEN "Panic" ELSE "ok")
                   EXCEPT !.rewards = calculateRewards(user)]

NextQuery ==
    \/ Next
    \/ \E user \in Accounts : calculateRewardsView(user)

SpecQuery == Init /\ [][NextQuery]_vars

(* ---------------------- rewards in 256-bit words ----------------------- *)
\* A uint256 is kept as its digits in base LIMB, lowest first, without
\* leading zeros (<<>> is 0); WORD digits fill a uint256.
LIMB == 256
WORD == 32
\* stands for a result that does not fit: Panic(0x11)
Overflowed == <<-1>>

Trim(x) ==
    LET used == {i \in DOMAIN x : x[i] # 0}
    IN  IF used = {} THEN <<>>
        ELSE SubSeq(x, 1, CHOOSE i \in used : \A j \in used : j <= i)

RECURSIVE FromNat(_)
FromNat(n) ==
    IF n = 0 THEN <<>> ELSE <<n % LIMB>> \o FromNat(n \div LIMB)

RECURSIVE ToNat(_)
ToNat(x) ==
    IF x = <<>> THEN 0 ELSE Head(x) + LIMB * ToNat(Tail(x))

\* 2^(8k) - 1 and 2^(8k)
Ones(k) == [i \in 1..k |-> LIMB - 1]
Pow(k) == [i \in 1..(k + 1) |-> IF i = k + 1 THEN 1 ELSE 0]

Digit(x, i) == IF i \in DOMAIN x THEN x[i] ELSE 0

\* a carry enters digit k of x + y: a digit below it overflows and every
\* digit between the two passes the carry on
CarryIn(x, y, k) ==
    \E j \in 1..(k - 1) :
        /\ Digit(x, j) + Digit(y, j) >= LIMB
        /\ \A i \in (j + 1)..(k - 1) : Digit(x, i) + Digit(y, i) = LIMB - 1

AddWide(x, y) ==
    Trim([k \in 1..((IF Len(x) > Len(y) THEN Len(x) ELSE Len(y)) + 1) |->
              (Digit(x, k) + Digit(y, k)
                   + (IF CarryIn(x, y, k) THEN 1 ELSE 0)) % LIMB])

RECURSIVE MulLimb(_, _, _)
\* x * d + carry for one digit d
MulLimb(x, d, carry) ==
    IF x = <<>> THEN FromNat(carry)
    ELSE <<(Head(x) * d + carry) % LIMB>>
             \o MulLimb(Tail(x), d, (Head(x) * d + carry) \div LIMB)

\* x * LIMB^n
Shift(x, n) == [i \in 1..(Len(x) + n) |-> IF i <= n THEN 0 ELSE x[i - n]]

RECURSIVE SumTerms(_, _, _, _)
\* x times the digits lo..hi of y, each at its place
SumTerms(x, y, lo, hi) ==
    IF lo = hi THEN Shift(MulLimb(x, y[lo], 0), lo - 1)
    ELSE AddWide(SumTerms(x, y, lo, (lo + hi) \div 2),
                 SumTerms(x, y, (lo + hi) \div 2 + 1, hi))

MulWide(x, y) ==
    IF x = <<>> \/ y = <<>> THEN <<>> ELSE Trim(SumTerms(x, y, 1, Len(y)))

RECURSIVE DivRem(_, _)
\* <<quotient, remainder>> of x by d, d * LIMB within the integers of TLC
DivRem(x, d) ==
    IF x = <<>> THEN <<<<>>, 0>>
    ELSE CHOOSE r \in {<<<<(h[2] * LIMB + Head(x)) \div d>> \o h[1],
                          (h[2] * LIMB + Head(x)) % d>> :
                            h \in {DivRem(Tail(x), d)}} : TRUE

\* the multiplication done in 192 bits
checkedMulNarrow(x, y) ==
    IF x = Overflowed \/ y = Overflowed THEN Overflowed
    ELSE IF Len(MulWide(x, y)) > 24 THEN Overflowed
    ELSE MulWide(x, y)

\* x * y in uint256 under Solidity ^0.8: Panic(0x11) on overflow
checkedMul(x, y) ==
    IF x = Overflowed \/ y = Overflowed THEN Overflowed
    ELSE IF Len(MulWide(x, y)) > WORD THEN Overflowed
    ELSE MulWide(x, y)

\* the body of calculateRewards on a record whose lastRewardClaimTime is 0,
\* so that timeElapsed is the block time; the quotient by
\* 365 days * PERCENTAGE_DENOMINATOR is taken factor by factor, floor(floor(
\* x / a) / b) being floor(x / (a * b))
rewardsOfWide(stakeInfo, timestamp) ==
    IF ~stakeInfo.initialized \/ stakeInfo.amount = <<>> THEN <<>>
    ELSE LET product ==
                 checkedMul(checkedMul(stakeInfo.amount,
                                       FromNat(stakeInfo.apy)), timestamp)
         IN  IF product = Overflowed THEN Overflowed
             ELSE Trim(DivRem(DivRem(DivRem(product, DAY)[1], 365)[1],
                              PERCENTAGE_DENOMINATOR)[1])

WideAmounts ==
    {FromNat(1), FromNat(InitialBalance), Pow(15), Ones(16), Pow(16),
     Ones(WORD)}
WideTimes == {<<>>, FromNat(2 * Stride), Ones(8), Pow(8), Ones(WORD)}

\* the ledger after deployment and a stake by alice at time 0, its amount
\* and the block time being words of 256 bits
InitWide ==
    /\ stakingTiers = <<[lockPeriod |-> 30, apy |-> 1500],
                        [lockPeriod |-> 60, apy |-> 2250],
                        [lockPeriod |-> 90, apy |-> 3000]>>
    /\ \E amount \in WideAmounts, i \in 1..Len(stakingTiers) :
           /\ stakes = [a \in Accounts |->
                  IF a \in Hooked
                  THEN [amount |-> amount,
                        stakingStartTime |-> <<>>,
                        lockEndTime |->
                            FromNat(stakingTiers[i].lockPeriod * DAY),
                        apy |-> stakingTiers[i].apy,
                        lastRewardClaimTime |-> <<>>,
                        initialized |-> TRUE]
                  ELSE [EmptyStake EXCEPT
                            !.amount = <<>>, !.stakingStartTime = <<>>,
                            !.lockEndTime = <<>>,
                            !.lastRewardClaimTime = <<>>]]
           /\ totalStaked = amount
           /\ balance = [h \in Holders |-> IF h = THIS THEN amount ELSE <<>>]
    /\ now \in WideTimes
    /\ rewardPoolBalance = <<>>
    /\ paused = FALSE
    /\ status = NOT_ENTERED
    /\ otherBalance = [h \in Holders |-> <<>>]
    /\ stack = <<>>
    /\ calls = 0
    /\ paid = [a \in Accounts |-> <<>>]
    /\ funded = <<>>
    /\ last = NoCall

\* calculateRewards(user), called from outside
calculateRewardsWide(user) ==
    /\ last.op = "none"
    /\ stakes[user].lastRewardClaimTime = <<>>
    /\ UNCHANGED <<stakes, totalStaked, rewardPoolBalance, stakingTiers,
                   paused, status, balance, otherBalance, now, stack, calls,
                   paid, funded>>
    /\ LET rewards == rewardsOfWide(stakes[user], now)
       IN  last' = [Ended("calculateRewards", user, <<user>>,
                          IF rewards = Overflowed THEN "Panic" ELSE "ok")
                       EXCEPT !.rewards = rewards]

NextWide == \E user \in Accounts : calculateRewardsWide(user)

SpecWide == InitWide /\ [][NextWide]_vars

(* ------------------------------ properties ----------------------------- *)
RECURSIVE SumAmounts(_, _)
SumAmounts(st, accounts) ==
    IF accounts = {} THEN 0
    ELSE LET a == CHOOSE x \in accounts : TRUE
         IN  (IF st[a].initialized THEN st[a].amount ELSE 0)
             + SumAmounts(st, accounts \ {a})

TransferFailures ==
    {"Transfer failed", "Rewards transfer failed", "token reverted"}
GuardedOps == {"stake", "claimRewards", "unstake", "emergencyWithdraw"}
OutboundOps == {"claimRewards", "unstake", "emergencyWithdraw", "recoverERC20"}
PreStake == last.pre.stakes[last.caller]
Push(to, amt) == [token |-> MAG, from |-> THIS, to |-> to, amt |-> amt]

\* C1: in every reachable state, between calls and inside them, totalStaked
\* is the sum of amount over the accounts whose record is active.
C1_TotalStakedIsSum == totalStaked = SumAmounts(stakes, Accounts)

\* one account has just left while the other is still staked
C1_Witness ==
    /\ last.op \in {"unstake", "emergencyWithdraw"}
    /\ last.result = "ok"
    /\ \E a \in Accounts : a # last.caller /\ HasStake(stakes[a])

\* C2: a stake call by an account with an active record always fails, makes
\* no token call and leaves the storage (the record included) as it was; when
\* it passes the re-entrancy and pause gates with amount > 0 the failure is
\* "Existing stake found".
C2_ExistingStakeRejected ==
    (last.op = "stake" /\ HasStake(PreStake)) =>
        /\ last.result # "ok"
        /\ last.attempts = 0
        /\ last.post = last.pre
        /\ (last.pre.status # ENTERED /\ ~last.pre.paused /\ last.args[1] > 0)
               => last.result = "Existing stake found"

C2_Witness ==
    /\ last.op = "stake"
    /\ HasStake(PreStake)
    /\ last.result = "Existing stake found"

\* C3: no unstake succeeds before lockEndTime of the caller's record; an
\* unstake that passes the re-entrancy gate with an active record fails with
\* "Stake is still locked" when now < lockEndTime, and when now >= lockEndTime
\* it fails only if a token transfer fails.
C3_LockEnforced ==
    /\ (last.op = "unstake" /\ last.result = "ok") =>
           (HasStake(PreStake) /\ now >= PreStake.lockEndTime)
    /\ (/\ last.op = "unstake"
        /\ last.pre.status # ENTERED
        /\ HasStake(PreStake)) =>
           IF now < PreStake.lockEndTime
           THEN /\ last.result = "Stake is still locked"
                /\ last.attempts = 0
                /\ last.post = last.pre
           ELSE last.result \in {"ok"} \cup TransferFailures

\* unstake succeeds exactly at lockEndTime
C3_Witness ==
    /\ last.op = "unstake"
    /\ last.result = "ok"
    /\ now = PreStake.lockEndTime

\* C4: when the token rejects a transfer inside stake, claimRewards, unstake,
\* emergencyWithdraw or fundRewardPool, the call fails and the storage and
\* the token balances at its exit are those at its entry.
C4_TransferFailureRollsBack ==
    (/\ last.op \in GuardedOps \cup {"fundRewardPool"}
     /\ \E i \in DOMAIN last.answers : last.answers[i] # "ok") =>
        /\ last.result \in TransferFailures
        /\ last.moves = <<>>
        /\ last.post = last.pre

\* unstake has pushed the principal and the reward push is rejected
C4_Witness ==
    /\ last.op = "unstake"
    /\ last.result = "Rewards transfer failed"
    /\ last.answers = <<"ok", "false">>
    /\ HasStake(stakes[last.caller])

\* C5: while a push of claimRewards is pending the caller's record has
\* lastRewardClaimTime = now; while a push of unstake or emergencyWithdraw
\* is pending the caller's record is deleted and totalStaked is decremented.
C5_EffectsBeforeInteractions ==
    \A i \in DOMAIN stack :
        LET f == stack[i]
        IN  /\ f.op = "claimRewards" =>
                   stakes[f.caller].lastRewardClaimTime = now
            /\ f.op \in {"unstake", "emergencyWithdraw"} =>
                   /\ stakes[f.caller] = EmptyStake
                   /\ totalStaked = f.snap.totalStaked
                                        - f.snap.stakes[f.caller].amount

\* the reward push of a claimRewards is pending, time having passed
C5_Witness ==
    /\ stack # <<>>
    /\ Top.op = "claimRewards"
    /\ Top.snap.stakes[Top.caller].lastRewardClaimTime < now

\* C6: no stake, claimRewards, unstake or emergencyWithdraw runs nested in a
\* call of claimRewards, unstake, emergencyWithdraw or recoverERC20 whose
\* outbound transfer is pending.
C6_NoGuardedCallInsideOutboundTransfer ==
    \A i, j \in DOMAIN stack :
        (i < j /\ stack[i].op \in OutboundOps) => stack[j].op \notin GuardedOps

\* C7: a step that changes the tier registry changes no stake record and no
\* account's computed reward.
C7_FrozenApy ==
    [][(stakingTiers' # stakingTiers /\ Len(stack') = Len(stack)) =>
           /\ stakes' = stakes
           /\ \A a \in Accounts :
                  calculateRewards(a)' = calculateRewards(a)]_vars

\* the tier of an open stake, with reward accrued, got another rate
C7_Witness ==
    /\ last.op = "updateStakingTier"
    /\ last.result = "ok"
    /\ \E a \in Accounts :
           /\ HasStake(stakes[a])
           /\ calculateRewards(a) > 0
           /\ stakes[a].apy # getAPYForLockPeriod(
                  (stakes[a].lockEndTime - stakes[a].stakingStartTime) \div DAY)

\* C8: a successful emergencyWithdraw makes one transfer, of the record's
\* amount to the caller, and leaves the caller's record empty; claimRewards
\* and unstake by an account without an active record fail before any token
\* call ("No stake found" once past the re-entrancy and pause gates).
C8_EmergencyPrincipalOnly ==
    /\ (last.op = "emergencyWithdraw" /\ last.result = "ok") =>
           /\ last.moves = <<Push(last.caller, PreStake.amount)>>
           /\ last.post.stakes[last.caller] = EmptyStake
    /\ (last.op \in {"claimRewards", "unstake"} /\ ~HasStake(PreStake)) =>
           /\ last.result \in {"No stake found", "EnforcedPause",
                               "ReentrancyGuardReentrantCall"}
           /\ last.attempts = 0
           /\ last.post = last.pre
           /\ (last.pre.status # ENTERED /\ ~last.pre.paused)
                  => last.result = "No stake found"

\* emergencyWithdraw has succeeded on a record with reward accrued
C8_Witness ==
    /\ last.op = "emergencyWithdraw"
    /\ last.result = "ok"
    /\ Accrued(PreStake.amount, PreStake.apy,
               now - PreStake.lastRewardClaimTime) > 0

\* C9: entered while paused, past the re-entrancy gate and with an active
\* record, emergencyWithdraw (and unstake when now >= lockEndTime) fails only
\* if a token transfer fails, and on success it has deleted the record,
\* decremented totalStaked and pushed the principal (unstake: then the
\* reward, if any) as it does when not paused.
C9_ExitWhilePaused ==
    (/\ last.op \in {"unstake", "emergencyWithdraw"}
     /\ last.pre.paused
     /\ last.pre.status # ENTERED
     /\ HasStake(PreStake)
     /\ (last.op = "unstake" => now >= PreStake.lockEndTime)) =>
        /\ last.result \in {"ok"} \cup TransferFailures
        /\ last.result = "ok" =>
               /\ last.post.stakes[last.caller] = EmptyStake
               /\ last.post.totalStaked =
                      last.pre.totalStaked - PreStake.amount
               /\ last.moves =
                      <<Push(last.caller, PreStake.amount)>> \o
                      (IF last.op = "unstake" /\ last.rewards > 0
                       THEN <<Push(last.caller, last.rewards)>> ELSE <<>>)
               /\ last.rewards =
                      (IF last.op = "unstake"
                       THEN Accrued(PreStake.amount, PreStake.apy,
                                    now - PreStake.lastRewardClaimTime)
                       ELSE 0)

\* unstake has succeeded in a paused ledger
C9_Witness ==
    /\ last.op = "unstake"
    /\ last.pre.paused
    /\ last.result = "ok"

\* while paused, stake and claimRewards fail before any token call and
\* change nothing
PausedRejects ==
    (last.op \in {"stake", "claimRewards"} /\ last.pre.paused) =>
        /\ last.result \in {"EnforcedPause", "ReentrancyGuardReentrantCall"}
        /\ last.attempts = 0
        /\ last.moves = <<>>
        /\ last.post = last.pre

\* C10 as stated: while paused stake and claimRewards fail and change
\* nothing, and no call that starts while paused creates a record or pays a
\* reward.
C10_NoRewardWhilePaused ==
    /\ PausedRejects
    /\ (last.op # "none" /\ last.pre.paused /\ last.result = "ok") =>
           (last.op # "stake" /\ last.rewards = 0)

\* C10 amended: while paused stake and claimRewards fail and change nothing;
\* a call that starts while paused and pays a reward is an unstake.
C10_PausedBlocksStakeAndClaim ==
    /\ PausedRejects
    /\ (last.op # "none" /\ last.pre.paused /\ last.result = "ok") =>
           (last.op # "stake" /\ (last.rewards > 0 => last.op = "unstake"))

\* claimRewards with reward accrued is rejected by the pause
C10_Witness ==
    /\ last.op = "claimRewards"
    /\ last.result = "EnforcedPause"
    /\ Accrued(PreStake.amount, PreStake.apy,
               now - PreStake.lastRewardClaimTime) > 0

OwnerOps ==
    {"addStakingTier", "updateStakingTier", "pause", "unpause", "recoverERC20"}

\* C11: addStakingTier, updateStakingTier, pause, unpause and recoverERC20
\* called by another account than the owner fail with
\* OwnableUnauthorizedAccount, make no token call and leave the storage as it
\* was; a step that changes the tier list or the pause flag ends a successful
\* addStakingTier, updateStakingTier, pause or unpause of the owner (or rolls
\* a failed call back).
C11_OnlyOwner ==
    [][/\ (last'.op \in OwnerOps /\ last'.caller # Owner) =>
              /\ last'.result = "OwnableUnauthorizedAccount"
              /\ last'.attempts = 0
              /\ last'.post = last'.pre
       /\ (stakingTiers' # stakingTiers \/ paused' # paused) =>
              \/ /\ last'.op \in OwnerOps \ {"recoverERC20"}
                 /\ last'.caller = Owner
                 /\ last'.result = "ok"
              \/ /\ last'.result \notin {"ok", "none"}
                 /\ stakingTiers' = last'.pre.stakingTiers
                 /\ paused' = last'.pre.paused]_vars

\* another account than the owner called updateStakingTier with an index and
\* a rate the owner could have used
C11_Witness ==
    /\ last.op = "updateStakingTier"
    /\ last.caller # Owner
    /\ last.args[1] < Len(stakingTiers)
    /\ last.args[2] > 0 /\ last.args[2] <= MAX_APY
    /\ last.result = "OwnableUnauthorizedAccount"

\* C12: recoverERC20 naming the staking token fails for every amount and
\* every caller, the owner included ("Cannot recover staking token"), with no
\* token call and the storage as it was; no owner-only operation transfers
\* staking tokens; recoverERC20 by the owner naming another token is not
\* rejected by a check of the contract.
C12_StakingTokenNotRecoverable ==
    /\ (last.op = "recoverERC20" /\ last.args[1] = MAG) =>
           /\ last.result \in {"Cannot recover staking token",
                               "OwnableUnauthorizedAccount"}
           /\ last.caller = Owner =>
                  last.result = "Cannot recover staking token"
           /\ last.attempts = 0
           /\ last.post = last.pre
    /\ last.op \in OwnerOps =>
           \A i \in DOMAIN last.moves : last.moves[i].token # MAG
    /\ (last.op = "recoverERC20" /\ last.caller = Owner
                                /\ last.args[1] # MAG) =>
           last.result \in {"ok", "token reverted"}

\* the owner tried to recover staking tokens while principal was held
C12_Witness ==
    /\ last.op = "recoverERC20"
    /\ last.caller = Owner
    /\ last.args[1] = MAG
    /\ last.args[2] > 0
    /\ totalStaked > 0
    /\ balance[THIS] >= last.args[2]

\* floor(amount * apy * elapsed / (365 * 86400 * 10000)) for an elapsed time
\* of whole days, numerator and denominator divided by 86400
FloorReward(amount, apy, elapsed) ==
    (amount * apy * (elapsed \div DAY)) \div (365 * PERCENTAGE_DENOMINATOR)

\* the reward of a record at the current time by the formula of the claim
Owed(s) == FloorReward(s.amount, s.apy, now - s.lastRewardClaimTime)

\* C13: for every active record calculateRewards is
\* floor(amount * apy * (now - lastRewardClaimTime) / (365*86400*10000)) with
\* the record's apy; a successful claimRewards pushes exactly that amount and
\* a successful unstake pushes the principal and then that amount when it is
\* positive; 1000 units at 1500 basis points over 15 days give 6.
C13_RewardFormula ==
    /\ Accrued(1000, 1500, 15 * DAY) = 6
    /\ \A a \in Accounts :
           HasStake(stakes[a]) => calculateRewards(a) = Owed(stakes[a])
    /\ (last.op = "claimRewards" /\ last.result = "ok") =>
           last.moves = <<Push(last.caller, Owed(PreStake))>>
    /\ (last.op = "unstake" /\ last.result = "ok") =>
           last.moves =
               <<Push(last.caller, PreStake.amount)>> \o
               (IF Owed(PreStake) > 0
                THEN <<Push(last.caller, Owed(PreStake))>> ELSE <<>>)

\* claimRewards has paid 6 on a stake at 1500 basis points after 15 days
C13_Witness ==
    /\ last.op = "claimRewards"
    /\ last.result = "ok"
    /\ PreStake.amount = InitialBalance
    /\ PreStake.apy = 1500
    /\ now - PreStake.lastRewardClaimTime = 15 * DAY
    /\ last.moves = <<Push(last.caller, 6)>>

\* C14: the rewards pushed for one stake, by its claimRewards calls and its
\* unstake, never sum to more than
\* floor(amount * apy * (t - stakingStartTime) / (365*86400*10000)),
\* t being the time of the last payout (lastRewardClaimTime while the record
\* is open, the time of the unstake at its end).
C14_NeverOverpaid ==
    /\ \A a \in Accounts :
           HasStake(stakes[a]) =>
               paid[a] <= FloorReward(stakes[a].amount, stakes[a].apy,
                              stakes[a].lastRewardClaimTime
                                  - stakes[a].stakingStartTime)
    /\ (last.op \in {"claimRewards", "unstake"} /\ last.result = "ok") =>
           paid[last.caller] <=
               FloorReward(PreStake.amount, PreStake.apy,
                           now - PreStake.stakingStartTime)

\* a second payout on one stake: a reward paid after an earlier claim
C14_Witness ==
    /\ last.op \in {"claimRewards", "unstake"}
    /\ last.result = "ok"
    /\ last.rewards > 0
    /\ paid[last.caller] > last.rewards
    /\ PreStake.lastRewardClaimTime > PreStake.stakingStartTime

\* the reward of a record with no time counted after lockEndTime
OwedToLockEnd(s) ==
    FloorReward(s.amount, s.apy,
                IF s.lockEndTime > s.lastRewardClaimTime
                THEN s.lockEndTime - s.lastRewardClaimTime ELSE 0)

\* C15: for an active record and now >= lockEndTime the reward computed by
\* calculateRewards, and the reward paid by a claimRewards or an unstake at
\* that time, count the time from lastRewardClaimTime to lockEndTime only.
C15_AccrualStopsAtLockEnd ==
    /\ \A a \in Accounts :
           (HasStake(stakes[a]) /\ now >= stakes[a].lockEndTime) =>
               calculateRewards(a) = OwedToLockEnd(stakes[a])
    /\ (/\ last.op \in {"claimRewards", "unstake"}
        /\ last.result = "ok"
        /\ now >= PreStake.lockEndTime) =>
           last.rewards = OwedToLockEnd(PreStake)

AllOk(answers) == \A i \in DOMAIN answers : answers[i] = "ok"

\* C16: a claimRewards or an unstake whose token transfers are all accepted
\* succeeds and leaves rewardPoolBalance no lower than it was; a claimRewards
\* with a positive reward (an unstake at or after lockEndTime) that passes
\* the re-entrancy and pause gates fails only if a token transfer fails,
\* whatever rewardPoolBalance is.
C16_PayoutsNotLimitedByPool ==
    /\ (/\ last.op \in {"claimRewards", "unstake"}
        /\ last.attempts > 0
        /\ AllOk(last.answers)) =>
           /\ last.result = "ok"
           /\ last.post.rewardPoolBalance >= last.pre.rewardPoolBalance
    /\ (/\ last.op = "claimRewards"
        /\ last.pre.status # ENTERED
        /\ ~last.pre.paused
        /\ HasStake(PreStake)
        /\ Owed(PreStake) > 0) =>
           last.result \in {"ok"} \cup TransferFailures
    /\ (/\ last.op = "unstake"
        /\ last.pre.status # ENTERED
        /\ HasStake(PreStake)
        /\ now >= PreStake.lockEndTime) =>
           last.result \in {"ok"} \cup TransferFailures

\* a reward above the tracked pool has been paid to one account, the contract
\* holds less than totalStaked and the exit of another account has failed
\* because the contract holds less than that account's principal
C16_Witness ==
    /\ last.op \in {"unstake", "emergencyWithdraw"}
    /\ last.result = "Transfer failed"
    /\ balance[THIS] < totalStaked
    /\ balance[THIS] < PreStake.amount
    /\ \E b \in Accounts \ {last.caller} : paid[b] > rewardPoolBalance

\* C17: a claimRewards by an account whose record is active and whose reward
\* at that time is 0 (as right after a successful claimRewards, no time
\* having passed) fails before any token call and leaves the storage,
\* lastRewardClaimTime included, as it was; past the re-entrancy and pause
\* gates the failure is "No rewards to claim".
C17_ZeroRewardRejected ==
    (last.op = "claimRewards" /\ HasStake(PreStake) /\ Owed(PreStake) = 0) =>
        /\ last.result \in {"No rewards to claim", "EnforcedPause",
                            "ReentrancyGuardReentrantCall"}
        /\ (last.pre.status # ENTERED /\ ~last.pre.paused) =>
               last.result = "No rewards to claim"
        /\ last.attempts = 0
        /\ last.moves = <<>>
        /\ last.post = last.pre

\* a second claimRewards at the time of a claim that paid is rejected
C17_Witness ==
    /\ last.op = "claimRewards"
    /\ last.result = "No rewards to claim"
    /\ PreStake.lastRewardClaimTime = now
    /\ PreStake.stakingStartTime < now
    /\ paid[last.caller] > 0

\* the amounts, rates and elapsed times the function is compared on when the
\* clock goes from now to now'
MonotoneInputs ==
    {<<InitialBalance \div 2, 2250>>, <<InitialBalance, MAX_APY>>}
MonotoneTimes == {DAY - 1, now, now'}

\* C18: for fixed amount and apy and t1 <= t2 the accrued reward at t2 is at
\* least that at t1, and when the clock advances calculateRewards of an
\* active record does not decrease.
C18_RewardMonotone ==
    [][now' > now =>
           /\ \A a \in Accounts :
                  HasStake(stakes[a]) =>
                      calculateRewards(a)' >= calculateRewards(a)
           /\ \A i \in MonotoneInputs :
                  \A r \in {[t \in MonotoneTimes |->
                                 Accrued(i[1], i[2], t)]} :
                      \A t1, t2 \in MonotoneTimes :
                          t1 < t2 => r[t2] >= r[t1]]_vars

\* the reward of an unclaimed stake has grown over each of two time steps
C18_Witness ==
    \E a \in Accounts :
        /\ HasStake(stakes[a])
        /\ now - Stride > stakes[a].lastRewardClaimTime
        /\ rewardsOf(stakes[a], now - Stride) > 0
        /\ calculateRewards(a) > rewardsOf(stakes[a], now - Stride)

ValidationFailures ==
    {"Cannot stake 0 tokens", "Existing stake found", "Invalid lock period",
     "No stake found", "Stake is still locked", "No rewards to claim",
     "Invalid APY", "Lock period already exists", "Invalid tier index",
     "Amount must be greater than 0"}

\* the call that ended had an argument or met a state that the function
\* rejects
InvalidCall ==
    \/ /\ last.op = "stake"
       /\ \/ last.args[1] = 0
          \/ HasStake(PreStake)
          \/ TierIndex(last.pre.stakingTiers, last.args[2]) = 0
    \/ /\ last.op \in {"claimRewards", "unstake", "emergencyWithdraw"}
       /\ ~HasStake(PreStake)
    \/ /\ last.op = "unstake"
       /\ now < PreStake.lockEndTime
    \/ /\ last.op = "claimRewards"
       /\ Owed(PreStake) = 0
    \/ /\ last.op = "addStakingTier"
       /\ \/ last.args[1] = 0
          \/ last.args[2] = 0
          \/ last.args[2] > MAX_APY
          \/ TierIndex(last.pre.stakingTiers, last.args[1]) # 0
    \/ /\ last.op = "updateStakingTier"
       /\ \/ last.args[1] >= Len(last.pre.stakingTiers)
          \/ last.args[2] = 0
          \/ last.args[2] > MAX_APY
    \/ /\ last.op = "fundRewardPool"
       /\ last.args[1] = 0

\* C19: a call with an invalid argument or in conflict with the state (stake
\* of 0, with an active record or for an unknown lock period; claimRewards,
\* unstake or emergencyWithdraw without an active record; unstake before
\* lockEndTime; claimRewards with reward 0; addStakingTier or
\* updateStakingTier with invalid arguments; fundRewardPool of 0) fails, and
\* so does every call that ends with one of the validation messages, with
\* no token call and the records, totalStaked, the tier list,
\* rewardPoolBalance, the pause flag and the token balances as at its entry.
C19_RejectedCallChangesNothing ==
    (InvalidCall \/ last.result \in ValidationFailures) =>
        /\ last.result \notin {"ok", "none"}
        /\ last.attempts = 0
        /\ last.moves = <<>>
        /\ last.post = last.pre

\* the owner asked for a tier whose lock period exists, with a valid rate
C19_Witness ==
    /\ last.op = "addStakingTier"
    /\ last.caller = Owner
    /\ last.args[2] > 0 /\ last.args[2] <= MAX_APY
    /\ last.result = "Lock period already exists"

\* the state of an account's record at a time
AccountState(s, t) ==
    IF ~HasStake(s) THEN "Idle"
    ELSE IF t < s.lockEndTime THEN "Locked"
    ELSE "Unlocked"

\* the step enters a call of op by account a, past its checks
Enters(op, a) ==
    /\ Len(stack') = Len(stack) + 1
    /\ stack'[Len(stack')].op = op
    /\ stack'[Len(stack')].caller = a

\* C20: a step changes the record or the state of an account only as
\* follows: a successful stake of the account takes it from Idle to Locked;
\* the clock takes it from Locked to Unlocked, the record untouched;
\* claimRewards of the account, Locked or Unlocked, keeps its state and
\* writes lastRewardClaimTime only; unstake, of an Unlocked account, and
\* emergencyWithdraw, of a Locked or Unlocked one, reset the record to the
\* empty record (Idle); a failing call puts back the records of its entry.
\* After a successful unstake or emergencyWithdraw the caller's record is the
\* empty record, which a new stake accepts.
C20_AccountStateMachine ==
    [][/\ \A a \in Accounts :
              LET from == AccountState(stakes[a], now)
                  to == AccountState(stakes'[a], now')
              IN  (stakes'[a] # stakes[a] \/ to # from) =>
                      \/ /\ last'.op = "stake"
                         /\ last'.caller = a
                         /\ last'.result = "ok"
                         /\ from = "Idle" /\ to = "Locked"
                      \/ /\ now' > now
                         /\ stakes'[a] = stakes[a]
                         /\ from = "Locked" /\ to = "Unlocked"
                      \/ /\ Enters("claimRewards", a)
                         /\ from # "Idle" /\ to = from
                         /\ stakes'[a] =
                                [stakes[a] EXCEPT !.lastRewardClaimTime = now]
                      \/ /\ Enters("unstake", a)
                         /\ from = "Unlocked"
                         /\ stakes'[a] = EmptyStake
                      \/ /\ Enters("emergencyWithdraw", a)
                         /\ from \in {"Locked", "Unlocked"}
                         /\ stakes'[a] = EmptyStake
                      \/ /\ last'.result \notin {"ok", "none"}
                         /\ stakes' = last'.pre.stakes
       /\ (last'.op \in {"unstake", "emergencyWithdraw"}
                /\ last'.result = "ok") =>
              /\ stakes'[last'.caller] = EmptyStake
              /\ AccountState(stakes'[last'.caller], now') = "Idle"]_vars

\* an account has left by unstake, holds its tokens again and passes the
\* checks of a new stake
C20_Witness ==
    /\ last.op = "unstake"
    /\ last.result = "ok"
    /\ stakes[last.caller] = EmptyStake
    /\ balance[last.caller] >= InitialBalance
    /\ stakeError(last.caller, InitialBalance, 30) = "none"

\* the step is the return of a token call to the open call of op, which goes
\* on or ends well
Returns(op) ==
    /\ stack # <<>>
    /\ Top.op = op
    /\ \/ /\ Len(stack') = Len(stack)
          /\ stack'[Len(stack)].pc # Top.pc
       \/ /\ stack' = Pop
          /\ last'.op = op
          /\ last'.result = "ok"

\* the record of the caller at the entry of the call that ends in the step
PreStakeNext == last'.pre.stakes[last'.caller]

\* C21: a successful unstake has made one token call when the reward accrued
\* from lastRewardClaimTime to now is 0 and two otherwise, all accepted: the
\* push of the record's amount to the caller and then, the reward being
\* positive, the push of exactly that reward; each of these pushes lowers
\* the contract's staking-token balance by exactly the amount pushed.
C21_UnstakePushes ==
    [][/\ (last'.op = "unstake" /\ last'.result = "ok") =>
              LET amount == PreStakeNext.amount
                  reward == FloorReward(amount, PreStakeNext.apy,
                                now' - PreStakeNext.lastRewardClaimTime)
              IN  /\ last'.attempts = (IF reward > 0 THEN 2 ELSE 1)
                  /\ Len(last'.answers) = last'.attempts
                  /\ AllOk(last'.answers)
                  /\ last'.moves[1] = Push(last'.caller, amount)
                  /\ reward > 0 => last'.moves[2] = Push(last'.caller, reward)
                  /\ Len(last'.moves) = last'.attempts
       /\ Returns("unstake") =>
              LET pushed == IF Top.pc = "principal" THEN Top.amount
                            ELSE Top.rewards
              IN  /\ balance'[THIS] = balance[THIS] - pushed
                  /\ balance'[Top.caller] = balance[Top.caller] + pushed
                  /\ Top.pc = "rewards" => pushed > 0]_vars

\* unstake right after a claimRewards at the same time: principal only
C21_Witness ==
    /\ last.op = "unstake"
    /\ last.result = "ok"
    /\ PreStake.lastRewardClaimTime = now
    /\ PreStake.stakingStartTime < now
    /\ last.moves = <<Push(last.caller, PreStake.amount)>>

\* the tiers of a registry whose lock period is the one given
Matching(tiers, lockPeriod) ==
    {i \in DOMAIN tiers : tiers[i].lockPeriod = lockPeriod}

\* C22: a stake that succeeds named the lock period of a tier that was in the
\* registry when it was called, and the record it created holds that tier's
\* apy as it was then; a stake naming a lock period no tier has fails,
\* without a token call or a change, and with "Invalid lock period" once it
\* is past the re-entrancy and pause gates, with amount > 0 and no active
\* record.
C22_StakeResolvesTier ==
    /\ (last.op = "stake" /\ last.result = "ok") =>
           /\ Matching(last.pre.stakingTiers, last.args[2]) # {}
           /\ \A i \in Matching(last.pre.stakingTiers, last.args[2]) :
                  last.post.stakes[last.caller].apy =
                      last.pre.stakingTiers[i].apy
    /\ (/\ last.op = "stake"
        /\ Matching(last.pre.stakingTiers, last.args[2]) = {}) =>
           /\ last.result \notin {"ok", "none"}
           /\ last.attempts = 0
           /\ last.post = last.pre
           /\ (/\ last.pre.status # ENTERED
               /\ ~last.pre.paused
               /\ last.args[1] > 0
               /\ ~HasStake(PreStake)) =>
                  last.result = "Invalid lock period"

\* a stake has taken the rate the owner gave the 30-day tier after deployment
C22_Witness ==
    /\ last.op = "stake"
    /\ last.result = "ok"
    /\ last.args[2] = 30
    /\ stakes[last.caller].apy = MAX_APY

\* the checks of stake on the storage s at its entry
StakeValid(s, caller, amount, lockPeriodInDays) ==
    /\ s.status # ENTERED
    /\ ~s.paused
    /\ amount > 0
    /\ ~HasStake(s.stakes[caller])
    /\ Matching(s.stakingTiers, lockPeriodInDays) # {}

Pull(from, amt) == [token |-> MAG, from |-> from, to |-> THIS, amt |-> amt]

\* C23: a stake whose pull is pending or was attempted had passed every check
\* at its entry (not re-entered, not paused, amount > 0, no active record, a
\* tier for the lock period); a stake that fails one of them has made no
\* token call; a successful stake has made one token call, the pull of
\* exactly amount from the caller.
C23_PullAfterValidation ==
    /\ \A i \in DOMAIN stack :
           stack[i].op = "stake" =>
               StakeValid(stack[i].snap, stack[i].caller,
                          stack[i].args[1], stack[i].args[2])
    /\ last.op = "stake" =>
           /\ last.attempts \in {0, 1}
           /\ last.attempts = 1 <=>
                  StakeValid(last.pre, last.caller, last.args[1], last.args[2])
           /\ last.result = "ok" =>
                  /\ last.attempts = 1
                  /\ last.moves = <<Pull(last.caller, last.args[1])>>

\* the pull of a stake that passed every check was refused by the token
C23_Witness ==
    /\ last.op = "stake"
    /\ last.result = "Transfer failed"
    /\ last.attempts = 1
    /\ StakeValid(last.pre, last.caller, last.args[1], last.args[2])

ValidApy(apy) == apy > 0 /\ apy <= 3000

\* C25: in every reachable state every tier has lockPeriod > 0 and
\* 0 < apy <= 3000; addStakingTier by the owner fails with "Invalid lock
\* period" for lock period 0 and, the lock period being positive, with
\* "Invalid APY" for apy 0 or above 3000; updateStakingTier by the owner on
\* an index of the registry fails with "Invalid APY" for the same rates; both
\* accept apy 3000.
C25_TiersInRange ==
    /\ \A i \in DOMAIN stakingTiers :
           stakingTiers[i].lockPeriod > 0 /\ ValidApy(stakingTiers[i].apy)
    /\ (last.op = "addStakingTier" /\ last.caller = Owner) =>
           IF last.args[1] = 0 THEN last.result = "Invalid lock period"
           ELSE IF ~ValidApy(last.args[2]) THEN last.result = "Invalid APY"
           ELSE IF Matching(last.pre.stakingTiers, last.args[1]) = {}
                THEN last.result = "ok"
           ELSE last.result # "Invalid APY"
    /\ (/\ last.op = "updateStakingTier"
        /\ last.caller = Owner
        /\ last.args[1] < Len(last.pre.stakingTiers)) =>
           IF ValidApy(last.args[2]) THEN last.result = "ok"
           ELSE last.result = "Invalid APY"
    /\ last.result = "Invalid APY" => last.post = last.pre

\* a tier of the registry has been raised to the cap of 3000
C25_Witness ==
    /\ last.op = "updateStakingTier"
    /\ last.result = "ok"
    /\ last.args[2] = 3000
    /\ last.pre.stakingTiers[last.args[1] + 1].apy < 3000
    /\ stakingTiers[last.args[1] + 1].apy = 3000

\* C26: updateStakingTier with index >= the number of tiers fails, with
\* "Invalid tier index" when the owner calls, and changes nothing; when it
\* succeeds the storage at its exit is the storage at its entry with the apy
\* of the tier at index replaced by the argument: that tier's lock period,
\* the other tiers, their number and order, the records, totalStaked,
\* rewardPoolBalance, the pause flag and the balances are as before.
C26_UpdateChangesOnlyApy ==
    last.op = "updateStakingTier" =>
        /\ last.args[1] >= Len(last.pre.stakingTiers) =>
               /\ last.result \in {"Invalid tier index",
                                   "OwnableUnauthorizedAccount"}
               /\ last.caller = Owner => last.result = "Invalid tier index"
               /\ last.post = last.pre
        /\ last.result = "ok" =>
               /\ last.args[1] < Len(last.pre.stakingTiers)
               /\ last.post.stakingTiers[last.args[1] + 1] =
                      [lockPeriod |->
                           last.pre.stakingTiers[last.args[1] + 1].lockPeriod,
                       apy |-> last.args[2]]
               /\ Len(last.post.stakingTiers) = Len(last.pre.stakingTiers)
               /\ \A i \in DOMAIN last.pre.stakingTiers :
                      i # last.args[1] + 1 =>
                          last.post.stakingTiers[i] = last.pre.stakingTiers[i]
               /\ [last.post EXCEPT !.stakingTiers = <<>>] =
                      [last.pre EXCEPT !.stakingTiers = <<>>]

\* the rate of the first tier has been changed while a record was open
C26_Witness ==
    /\ last.op = "updateStakingTier"
    /\ last.result = "ok"
    /\ last.args[1] = 0
    /\ last.pre.stakingTiers[1].apy # last.args[2]
    /\ totalStaked > 0

\* the lock period, in days, a record was created with
PeriodOf(s) == (s.lockEndTime - s.stakingStartTime) \div DAY

\* an active record was created against the lock period of tier i
Referenced(i) ==
    \E a \in Accounts :
        /\ HasStake(stakes[a])
        /\ PeriodOf(stakes[a]) = stakingTiers[i].lockPeriod

\* C27 as stated: no step changes the registry entry of a tier that an
\* active record was created against.
C27_ReferencedTierImmutable ==
    [][\A i \in DOMAIN stakingTiers :
           Referenced(i) =>
               /\ i \in DOMAIN stakingTiers'
               /\ stakingTiers'[i] = stakingTiers[i]]_vars

\* C27 amended: a tier that an active record was created against keeps its
\* place and its lock period; its entry changes only in its apy, by a
\* successful updateStakingTier of the owner on its index, and that step
\* changes no record.
C27_ReferencedTierKeepsTerms ==
    [][\A i \in DOMAIN stakingTiers :
           Referenced(i) =>
               /\ i \in DOMAIN stakingTiers'
               /\ stakingTiers'[i].lockPeriod = stakingTiers[i].lockPeriod
               /\ stakingTiers'[i] # stakingTiers[i] =>
                      /\ last'.op = "updateStakingTier"
                      /\ last'.caller = Owner
                      /\ last'.result = "ok"
                      /\ last'.args[1] = i - 1
                      /\ stakes' = stakes]_vars

\* the owner has changed the rate of a tier that an active record was
\* created against
C27_Witness ==
    /\ last.op = "updateStakingTier"
    /\ last.result = "ok"
    /\ last.pre.stakingTiers[last.args[1] + 1].apy # last.args[2]
    /\ Referenced(last.args[1] + 1)

\* the step puts the storage back to that at the entry of a call that fails
RollsBack ==
    /\ last'.result \notin {"ok", "none"}
    /\ stakes' = last'.pre.stakes

\* C28: the record written by a successful stake has stakingStartTime = now,
\* the amount of the call and lockEndTime = stakingStartTime + 86400 times
\* the lock period of the call; every active record has lockEndTime =
\* stakingStartTime + 86400 times a lock period passed to stake; and a record
\* active before and after a step has the same amount, stakingStartTime and
\* lockEndTime, but for the roll-back of a failed call, which puts back the
\* record of its entry.
C28_LockEndFixed ==
    [][/\ (last'.op = "stake" /\ last'.result = "ok") =>
              LET r == last'.post.stakes[last'.caller]
              IN  /\ r.amount = last'.args[1]
                  /\ r.stakingStartTime = now'
                  /\ r.lockEndTime = r.stakingStartTime + last'.args[2] * 86400
       /\ \A a \in Accounts :
              HasStake(stakes'[a]) =>
                  \E i \in StakeInputs :
                      stakes'[a].lockEndTime =
                          stakes'[a].stakingStartTime + i[2] * 86400
       /\ \A a \in Accounts :
              (HasStake(stakes[a]) /\ HasStake(stakes'[a])) =>
                  \/ /\ stakes'[a].amount = stakes[a].amount
                     /\ stakes'[a].stakingStartTime =
                            stakes[a].stakingStartTime
                     /\ stakes'[a].lockEndTime = stakes[a].lockEndTime
                  \/ RollsBack]_vars

\* a record of a 15-day stake has lived through a claimRewards after its
\* lock ended
C28_Witness ==
    /\ last.op = "claimRewards"
    /\ last.result = "ok"
    /\ now > stakes[last.caller].lockEndTime
    /\ stakes[last.caller].lockEndTime =
           stakes[last.caller].stakingStartTime + 15 * DAY

\* C29: every active record has stakingStartTime <= lastRewardClaimTime <=
\* now; the record written by a successful stake has lastRewardClaimTime =
\* stakingStartTime; lastRewardClaimTime of a record active before and after
\* a step does not decrease, but for the roll-back of a failed call; and no
\* call ends with the panic of the subtraction now - lastRewardClaimTime.
C29_ClaimTimeBounds ==
    [][/\ \A a \in Accounts :
              HasStake(stakes'[a]) =>
                  /\ stakes'[a].stakingStartTime
                         <= stakes'[a].lastRewardClaimTime
                  /\ stakes'[a].lastRewardClaimTime <= now'
       /\ (last'.op = "stake" /\ last'.result = "ok") =>
              last'.post.stakes[last'.caller].lastRewardClaimTime =
                  last'.post.stakes[last'.caller].stakingStartTime
       /\ \A a \in Accounts :
              (HasStake(stakes[a]) /\ HasStake(stakes'[a])) =>
                  \/ stakes'[a].lastRewardClaimTime
                         >= stakes[a].lastRewardClaimTime
                  \/ RollsBack
       /\ last'.result # "Panic"]_vars

\* a record has been claimed on twice, at two times after its start
C29_Witness ==
    /\ last.op = "claimRewards"
    /\ last.result = "ok"
    /\ PreStake.stakingStartTime < PreStake.lastRewardClaimTime
    /\ PreStake.lastRewardClaimTime < now
    /\ stakes[last.caller].lastRewardClaimTime = now

\* C30: the entry of a claimRewards past its checks writes the caller's
\* lastRewardClaimTime = now and nothing else; the return of its push moves
\* the reward from the contract to the caller and changes nothing else; at
\* the end of a successful claimRewards the records are those of its entry
\* but for the caller's lastRewardClaimTime, the caller's record is active,
\* totalStaked is that of its entry and the one transfer made is the reward.
C30_ClaimChangesOnlyClaimTime ==
    [][/\ \A a \in Accounts :
              Enters("claimRewards", a) =>
                  /\ stakes' = [stakes EXCEPT ![a].lastRewardClaimTime = now]
                  /\ UNCHANGED <<totalStaked, rewardPoolBalance, stakingTiers,
                                 paused, balance, otherBalance>>
       /\ Returns("claimRewards") =>
              /\ balance' = Move(balance, THIS, Top.caller, Top.rewards)
              /\ UNCHANGED <<stakes, totalStaked, rewardPoolBalance,
                             stakingTiers, paused, otherBalance>>
       /\ (last'.op = "claimRewards" /\ last'.result = "ok") =>
              /\ last'.post.stakes =
                     [last'.pre.stakes EXCEPT
                          ![last'.caller].lastRewardClaimTime = now']
              /\ HasStake(last'.post.stakes[last'.caller])
              /\ last'.post.totalStaked = last'.pre.totalStaked
              /\ last'.moves = <<Push(last'.caller, last'.rewards)>>]_vars

\* claimRewards has succeeded while another account had an active record
C30_Witness ==
    /\ last.op = "claimRewards"
    /\ last.result = "ok"
    /\ last.rewards > 0
    /\ \E b \in Accounts \ {last.caller} : HasStake(stakes[b])

\* C31: a fundRewardPool call with amount 0 fails with "Amount must be
\* greater than 0", makes no token call and changes nothing; one with
\* amount > 0, whoever calls and whether paused or re-entered, makes one
\* token call and fails only when the token refuses the pull; its entry adds
\* exactly amount to rewardPoolBalance and changes nothing else, the return
\* of its pull moves exactly amount from the caller to the contract and
\* changes nothing else, and the one transfer of a successful call is that
\* pull.
C31_FundPool ==
    [][/\ last'.op = "fundRewardPool" =>
              IF last'.args[1] = 0
              THEN /\ last'.result = "Amount must be greater than 0"
                   /\ last'.attempts = 0
                   /\ last'.post = last'.pre
              ELSE /\ last'.attempts = 1
                   /\ last'.result \in {"ok"} \cup TransferFailures
                   /\ last'.result = "ok" <=> AllOk(last'.answers)
                   /\ last'.result = "ok" =>
                          last'.moves = <<Pull(last'.caller, last'.args[1])>>
       /\ \A a \in Accounts :
              Enters("fundRewardPool", a) =>
                  /\ rewardPoolBalance' =
                         rewardPoolBalance + stack'[Len(stack')].args[1]
                  /\ UNCHANGED <<stakes, totalStaked, stakingTiers, paused,
                                 status, balance, otherBalance>>
       /\ Returns("fundRewardPool") =>
              /\ balance' = Move(balance, Top.caller, THIS, Top.args[1])
              /\ UNCHANGED <<stakes, totalStaked, rewardPoolBalance,
                             stakingTiers, paused, status,
                             otherBalance>>]_vars

\* an account that is not the owner has funded the pool while the contract
\* was paused
C31_Witness ==
    /\ last.op = "fundRewardPool"
    /\ last.result = "ok"
    /\ last.caller # Owner
    /\ paused
    /\ last.pre.paused
    /\ rewardPoolBalance = last.args[1]
    /\ balance[THIS] = Donated + last.args[1]

AccountOps ==
    {"stake", "claimRewards", "unstake", "emergencyWithdraw",
     "fundRewardPool"}

\* the operations on its own record that account b gets past their checks
\* on the storage s at time t
Open(s, t, b) ==
    {op \in AccountOps :
        CASE op = "stake" -> StakeValid(s, b, InitialBalance, 30)
          [] op = "claimRewards" ->
                 /\ s.status # ENTERED
                 /\ ~s.paused
                 /\ HasStake(s.stakes[b])
                 /\ rewardsOf(s.stakes[b], t) > 0
          [] op = "unstake" ->
                 /\ s.status # ENTERED
                 /\ HasStake(s.stakes[b])
                 /\ t >= s.stakes[b].lockEndTime
          [] op = "emergencyWithdraw" ->
                 /\ s.status # ENTERED
                 /\ HasStake(s.stakes[b])
          [] op = "fundRewardPool" -> TRUE}

\* C32: a step changes the record of an account only if it is a step of a
\* call made by that account (its entry or the return of one of its token
\* calls) or the roll-back of a failed call, which puts back the records of
\* its entry; and a stake, claimRewards, unstake, emergencyWithdraw or
\* fundRewardPool call that has failed has left the whole storage as at its
\* entry, so that every other account gets the same operations past their
\* checks after it as before it, and those are the ones the functions
\* accept.
C32_RecordsIndependent ==
    /\ [](\A b \in Accounts \ {last.caller} :
              (last.op \in AccountOps /\ last.result # "ok") =>
                  /\ last.post = last.pre
                  /\ \A open \in {Open(last.post, now, b)} :
                         /\ open = Open(last.pre, now, b)
                         /\ "stake" \in open
                                <=> stakeError(b, InitialBalance, 30) = "none"
                         /\ "claimRewards" \in open
                                <=> claimRewardsError(b) = "none"
                         /\ "unstake" \in open <=> unstakeError(b) = "none"
                         /\ "emergencyWithdraw" \in open
                                <=> emergencyWithdrawError(b) = "none")
    /\ [][\A b \in Accounts :
              stakes'[b] # stakes[b] =>
                  \/ \E op \in AccountOps : Enters(op, b)
                  \/ /\ stack # <<>>
                     /\ Top.caller = b
                     /\ Len(stack') <= Len(stack)
                  \/ RollsBack]_vars

\* a call of one account was refused by the token while the other account
\* had an active record past its lock, which it can still unstake
C32_Witness ==
    /\ last.op \in {"stake", "fundRewardPool"}
    /\ last.result \in TransferFailures
    /\ \E b \in Accounts \ {last.caller} :
           /\ HasStake(stakes[b])
           /\ stakes[b] = last.pre.stakes[b]
           /\ "unstake" \in Open(last.post, now, b)
           /\ unstakeError(b) = "none"

\* C33: calculateRewards on a record with amount < 2^128 and apy <= 3000 at
\* an elapsed time < 2^64 does not fail: amount * apy * timeElapsed is below
\* 2^208, within uint256; and on amounts and times small enough for both,
\* the result in 256-bit words is that of Accrued.
C33_NoOverflow ==
    last.op = "calculateRewards" =>
        LET s == stakes[last.caller]
        IN  (Len(s.amount) <= 16 /\ s.apy <= MAX_APY /\ Len(now) <= 8) =>
                /\ last.result = "ok"
                /\ Len(MulWide(MulWide(s.amount, FromNat(s.apy)), now)) <= 26
                /\ (Len(s.amount) <= 2 /\ Len(now) <= 3) =>
                       ToNat(last.rewards) =
                           Accrued(ToNat(s.amount), s.apy, ToNat(now))

\* calculateRewards has answered for amount = 2^128 - 1, apy = 3000 and an
\* elapsed time of 2^64 - 1
C33_Witness ==
    /\ last.op = "calculateRewards"
    /\ last.result = "ok"
    /\ stakes[last.caller].amount = Ones(16)
    /\ stakes[last.caller].apy = MAX_APY
    /\ now = Ones(8)
    /\ last.rewards # <<>>

\* C34: in every state, open calls included, the record of every account has
\* initialized = TRUE exactly when its amount is greater than 0, and a record
\* that is not initialized is the empty record.
C34_ActiveIffAmount ==
    \A a \in Accounts :
        /\ stakes[a].initialized <=> stakes[a].amount > 0
        /\ ~stakes[a].initialized => stakes[a] = EmptyStake

\* one account has left through unstake, its record deleted, while the
\* other holds an active one
C34_Witness ==
    /\ last.op = "unstake"
    /\ last.result = "ok"
    /\ last.pre.stakes[last.caller].initialized
    /\ ~stakes[last.caller].initialized
    /\ \E b \in Accounts : stakes[b].initialized /\ stakes[b].amount > 0

\* C35: a calculateRewards query leaves every variable of the contract and
\* of the token as it was and does not fail; it returns 0 for an account
\* without an active record and floor(amount * apy * (now -
\* lastRewardClaimTime) / (365 * 86400 * 10000)) for an active one; a
\* claimRewards call of the same account entered right after the query holds
\* exactly the value returned as its reward, which is positive; such a call
\* is rejected with "No rewards to claim" exactly when it is neither
\* re-entered nor paused, the record is active and the query returned 0; and
\* a successful claimRewards pushes exactly the reward held since its entry.
C35_QueryMatchesClaim ==
    [][/\ last'.op = "calculateRewards" =>
              /\ UNCHANGED <<stakes, totalStaked, rewardPoolBalance,
                             stakingTiers, paused, status, balance,
                             otherBalance, now, stack, paid>>
              /\ last'.post = last'.pre
              /\ last'.result = "ok"
              /\ last'.rewards =
                     IF HasStake(stakes[last'.caller])
                     THEN Owed(stakes[last'.caller]) ELSE 0
       /\ last.op = "calculateRewards" =>
              /\ Enters("claimRewards", last.caller) =>
                     /\ stack'[Len(stack')].rewards = last.rewards
                     /\ last.rewards > 0
              /\ (/\ last'.op = "claimRewards"
                  /\ last'.caller = last.caller
                  /\ last'.attempts = 0) =>
                     (last'.result = "No rewards to claim"
                         <=> /\ nonReentrant
                             /\ whenNotPaused
                             /\ HasStake(stakes[last.caller])
                             /\ last.rewards = 0)
       /\ (Returns("claimRewards") /\ stack' = Pop) =>
              last'.moves = <<Push(Top.caller, Top.rewards)>>]_vars

\* the query has returned a positive reward for an account whose
\* claimRewards call passes its checks
C35_Witness ==
    /\ last.op = "calculateRewards"
    /\ last.rewards > 0
    /\ HasStake(stakes[last.caller])
    /\ claimRewardsError(last.caller) = "none"

\* the event a successful call must have left, told from its arguments, the
\* transfers it made and the storage at its entry and at its exit
Expected(l) ==
    CASE l.op = "stake" ->
             [name |-> "Staked", user |-> l.caller, amount |-> l.args[1],
              lockPeriod |-> l.args[2], apy |-> l.post.stakes[l.caller].apy]
      [] l.op = "claimRewards" ->
             [name |-> "RewardsClaimed", user |-> l.caller,
              amount |-> l.moves[1].amt]
      [] l.op = "unstake" ->
             [name |-> "Unstaked", user |-> l.caller,
              amount |-> l.pre.stakes[l.caller].amount,
              rewards |-> IF Len(l.moves) = 2 THEN l.moves[2].amt ELSE 0]
      [] l.op = "emergencyWithdraw" ->
             [name |-> "Unstaked", user |-> l.caller,
              amount |-> l.pre.stakes[l.caller].amount, rewards |-> 0]
      [] l.op = "addStakingTier" ->
             [name |-> "StakingTierAdded",
              lockPeriod |->
                  l.post.stakingTiers[Len(l.post.stakingTiers)].lockPeriod,
              apy |-> l.post.stakingTiers[Len(l.post.stakingTiers)].apy]
      [] l.op = "updateStakingTier" ->
             [name |-> "StakingTierUpdated",
              lockPeriod |-> l.pre.stakingTiers[l.args[1] + 1].lockPeriod,
              apy |-> l.post.stakingTiers[l.args[1] + 1].apy]
      [] l.op = "fundRewardPool" ->
             [name |-> "Funded", sender |-> l.caller,
              amount |-> l.moves[1].amt]

EventOps ==
    {"stake", "claimRewards", "unstake", "emergencyWithdraw",
     "addStakingTier", "updateStakingTier", "fundRewardPool"}

\* C36: a successful stake, claimRewards, unstake, emergencyWithdraw,
\* addStakingTier, updateStakingTier or fundRewardPool call leaves exactly
\* one event, with the values it applied: Staked(caller, amount, lock
\* period, the apy written to the record), RewardsClaimed(caller, the reward
\* pushed), Unstaked(caller, the principal, the reward pushed or 0),
\* Unstaked(caller, the principal, 0) for emergencyWithdraw,
\* StakingTierAdded and StakingTierUpdated(the tier's lock period, its new
\* apy), Funded(caller, the amount pulled); a call that fails leaves none.
C36_OneEventPerSuccess ==
    /\ (last.op \in EventOps /\ last.result = "ok") =>
           last.events = <<Expected(last)>>
    /\ last.result \notin {"ok", "none"} => last.events = <<>>

\* emergencyWithdraw has left Unstaked with reward 0 for a record that had
\* accrued a positive reward
C36_Witness ==
    /\ last.op = "emergencyWithdraw"
    /\ last.result = "ok"
    /\ rewardsOf(PreStake, now) > 0
    /\ last.events = <<[name |-> "Unstaked", user |-> last.caller,
                        amount |-> PreStake.amount, rewards |-> 0]>>

\* C37: every tier has a lock period greater than 0 and every active record
\* has lockEndTime > stakingStartTime; the record written by a successful
\* stake is Locked at the time of the stake, so that an unstake at that time
\* is rejected; a successful unstake comes strictly later than the start of
\* the stake it closes; and no step takes an account from Idle to Unlocked,
\* but for the roll-back of a failed call.
C37_NewStakeIsLocked ==
    [][/\ \A i \in DOMAIN stakingTiers' : stakingTiers'[i].lockPeriod > 0
       /\ \A a \in Accounts :
              HasStake(stakes'[a]) =>
                  stakes'[a].lockEndTime > stakes'[a].stakingStartTime
       /\ \A a \in Accounts :
              (last'.op = "stake" /\ last'.result = "ok"
                                 /\ last'.caller = a) =>
                  /\ AccountState(stakes'[a], now') = "Locked"
                  /\ status' = NOT_ENTERED =>
                         unstakeError(a)' = "Stake is still locked"
       /\ (last'.op = "unstake" /\ last'.result = "ok") =>
              now' > PreStakeNext.stakingStartTime
       /\ \A a \in Accounts :
              AccountState(stakes[a], now) = "Idle" =>
                  \/ AccountState(stakes'[a], now') # "Unlocked"
                  \/ RollsBack]_vars

\* a stake made after the start of the clock is Locked, and an unstake at
\* that time would be rejected
C37_Witness ==
    /\ last.op = "stake"
    /\ last.result = "ok"
    /\ now > 0
    /\ stakes[last.caller].stakingStartTime = now
    /\ AccountState(stakes[last.caller], now) = "Locked"
    /\ unstakeError(last.caller) = "Stake is still locked"

RECURSIVE OpenFunds(_)
\* the amounts of the fundRewardPool calls open in the stack st
OpenFunds(st) ==
    IF st = <<>> THEN 0
    ELSE (IF Head(st).op = "fundRewardPool" THEN Head(st).amount ELSE 0)
             + OpenFunds(Tail(st))

\* C38: rewardPoolBalance is the sum of the amounts of the fundRewardPool
\* calls that have succeeded plus those of the ones still open, whatever
\* has been paid out; a step changes it only by adding the amount of a
\* fundRewardPool call at its entry or by the roll-back of a failed call to
\* the value at its entry; and every call, of any operation, leaves it no
\* lower than at its entry, raised by exactly what the fundRewardPool calls
\* that succeeded within it added.
C38_PoolIsSumOfFundings ==
    [][/\ rewardPoolBalance' = funded' + OpenFunds(stack')
       /\ rewardPoolBalance' # rewardPoolBalance =>
              \/ \E a \in Accounts :
                     /\ Enters("fundRewardPool", a)
                     /\ rewardPoolBalance' =
                            rewardPoolBalance + stack'[Len(stack')].args[1]
              \/ /\ RollsBack
                 /\ rewardPoolBalance' = last'.pre.rewardPoolBalance
       /\ last'.op # "none" =>
              /\ last'.post.rewardPoolBalance >= last'.pre.rewardPoolBalance
              /\ last'.post.rewardPoolBalance - last'.pre.rewardPoolBalance
                     = last'.post.funded - last'.pre.funded
              /\ last'.result # "ok" =>
                     last'.post.rewardPoolBalance =
                         last'.pre.rewardPoolBalance]_vars

\* a reward has been paid after the pool was funded once, the tracked
\* balance still being the amount funded
C38_Witness ==
    /\ last.op = "claimRewards"
    /\ last.result = "ok"
    /\ last.rewards > 0
    /\ funded \in FundAmounts \ {0}
    /\ rewardPoolBalance = funded

LockPeriods == {15, 30, 60, 90}

\* C39: no step shortens the tier list or changes the lock period at one of
\* its places; a successful addStakingTier leaves the list of its entry
\* with the new tier at the end; and a lock period that getAPYForLockPeriod
\* resolves before a step is resolved after it, at the same place.
C39_TiersAppendOnly ==
    [][/\ Len(stakingTiers') >= Len(stakingTiers)
       /\ \A i \in DOMAIN stakingTiers :
              stakingTiers'[i].lockPeriod = stakingTiers[i].lockPeriod
       /\ (last'.op = "addStakingTier" /\ last'.result = "ok") =>
              /\ Len(stakingTiers') = Len(stakingTiers) + 1
              /\ SubSeq(stakingTiers', 1, Len(stakingTiers)) = stakingTiers
              /\ stakingTiers'[Len(stakingTiers')] =
                     [lockPeriod |-> last'.args[1], apy |-> last'.args[2]]
       /\ \A p \in LockPeriods :
              getAPYForLockPeriod(p) # -1 =>
                  /\ getAPYForLockPeriod(p)' # -1
                  /\ TierIndex(stakingTiers', p) = TierIndex(stakingTiers, p)
      ]_vars

\* a tier has been added behind the three of the constructor, the first of
\* which had its rate updated before
C39_Witness ==
    /\ last.op = "addStakingTier"
    /\ last.result = "ok"
    /\ Len(stakingTiers) = 4
    /\ stakingTiers[1] = [lockPeriod |-> 30, apy |-> MAX_APY]
    /\ stakingTiers[4].lockPeriod = 15
    /\ getAPYForLockPeriod(15) = stakingTiers[4].apy
====
